---- MODULE Spec2Model ----
(***************************************************************************)
(* Model of the in-memory virtual file system (VirtualFileSystem) and of   *)
(* the path algebra it rests on (path-utils.ts).                           *)
(*                                                                         *)
(* Strings are sequences of one-character strings, so that the path        *)
(* functions are computed character by character as the code computes     *)
(* them.  FileNode objects live in a heap (nodes: id -> object); the index *)
(* `files` and the children maps hold object ids, so aliasing, orphaned    *)
(* objects and cycles are representable exactly as in the program.         *)
(***************************************************************************)
EXTENDS Integers, Sequences, FiniteSets, TLC

VARIABLES nodes, files, root, normIn, normOut, selectedFile, refreshTrigger,
          snapshot, built, entryPoint, previewHTML, error, isFirstLoad, effectDeps,
          clock, rateLimitTable, fallbackRateLimitStore, requests,
          failedAttempts, signIns, recorded, signInResult,
          auditBuffer, auditLog, flushes, flushTimer, logged, returned,
          initialized, callers, bodyRuns

vars == <<nodes, files, root, normIn, normOut, selectedFile, refreshTrigger,
          snapshot, built, entryPoint, previewHTML, error, isFirstLoad, effectDeps,
          clock, rateLimitTable, fallbackRateLimitStore, requests,
          failedAttempts, signIns, recorded, signInResult,
          auditBuffer, auditLog, flushes, flushTimer, logged, returned,
          initialized, callers, bodyRuns>>
vfsVars == <<nodes, files, root>>
normVars == <<normIn, normOut>>
\* the state of the FileSystemProvider besides its VirtualFileSystem
provVars == <<selectedFile, refreshTrigger>>
\* the build pipeline: the Map of files a build is given, what createImportMap
\* made of it, the entry point and the document of the preview
pipeVars == <<snapshot, built, entryPoint, previewHTML>>
\* the state of the PreviewFrame besides its entry point and its document
frameVars == <<error, isFirstLoad, effectDeps>>
\* the server side: the rate limiter (rate-limit.ts), the failed sign-in
\* attempts (actions/index.ts), the audit log (audit-log.ts) and the startup
\* (startup.ts); clock is what Date.now() returns
rateVars == <<rateLimitTable, fallbackRateLimitStore, requests>>
signVars == <<failedAttempts, signIns, recorded, signInResult>>
auditVars == <<auditBuffer, auditLog, flushes, flushTimer, logged, returned>>
startVars == <<initialized, callers, bodyRuns>>
serverVars == <<clock, rateVars, signVars, auditVars, startVars>>
clientVars == <<vfsVars, normVars, provVars, pipeVars, frameVars>>

(***************************************************************************)
(* Bounds                                                                  *)
(***************************************************************************)
\* longest input string of the pure path-function specification
MaxLen == 4
\* largest number of index entries (root included) a step may leave behind
MaxNodes == 3
\* most elements of a file's content the editing specification lets a step leave
MaxContent == 4
\* the change epoch up to which the provider is followed
MaxEpoch == 3
\* config.limit and config.windowMs of the rate limiter that is followed,
\* the windowMs in ticks of the clock
Limit == 2
WindowMs == 2
\* the time up to which the rate limiter is followed, and the requests it is sent
MaxClock == 3
MaxRequests == 3
\* the clock of the sign-in specification advances by TickMinutes up to MaxMinutes
TickMinutes == 7
MaxMinutes == 28
\* sign-ins in progress at once, and the failed attempts recorded in all
MaxSignIns == 2
MaxFailures == 5
\* events handed to logAuditEvent, and calls of initializeApplication
MaxEvents == 3
MaxCalls == 2
\* the INSERT statements that are followed
MaxInserts == 4
\* most files of a snapshot the build is given
MaxFiles == 2

(***************************************************************************)
(* Program constants                                                       *)
(***************************************************************************)
MAX_PATH_LENGTH == 4096
MAX_FILE_SIZE == 10 * 1024 * 1024

(***************************************************************************)
(* Strings                                                                 *)
(***************************************************************************)
Slash == "/"
NUL == "\\0"
NL == "\n"
RootPath == <<Slash>>

\* Two elements stand for runs of characters too long to write out: LongName
\* for MAX_PATH_LENGTH characters "n" and LongText for MAX_FILE_SIZE - 1
\* characters "t".  No separator, NUL or line break is in a run, and no string
\* searched for is taken from one.
LongName == "n^MAX_PATH_LENGTH"
LongText == "t^(MAX_FILE_SIZE-1)"

\* String.prototype.length
StrLength(s) ==
  Len(s) + (MAX_PATH_LENGTH - 1) * Cardinality({i \in 1..Len(s) : s[i] = LongName})
         + (MAX_FILE_SIZE - 2) * Cardinality({i \in 1..Len(s) : s[i] = LongText})

Last(s) == s[Len(s)]
Front(s) == SubSeq(s, 1, Len(s) - 1)

\* JavaScript's comparison of strings: code units, left to right
CharCode(c) == CASE c = NUL -> 0 [] c = Slash -> 47 [] c = "a" -> 97
                 [] c = "b" -> 98 [] c = "x" -> 120 [] OTHER -> 121

RECURSIVE StrLess(_, _)
StrLess(s, t) ==
  IF t = <<>> THEN FALSE
  ELSE IF s = <<>> THEN TRUE
  ELSE IF s[1] # t[1] THEN CharCode(s[1]) < CharCode(t[1])
  ELSE StrLess(Tail(s), Tail(t))

\* String.prototype.split("/")
RECURSIVE Split(_)
Split(s) ==
  IF \A i \in 1..Len(s) : s[i] # Slash THEN <<s>>
  ELSE LET i == CHOOSE k \in 1..Len(s) :
                  s[k] = Slash /\ \A j \in 1..(k - 1) : s[j] # Slash
       IN <<SubSeq(s, 1, i - 1)>> \o Split(SubSeq(s, i + 1, Len(s)))

\* Array.prototype.join("/")
RECURSIVE Join(_)
Join(parts) ==
  IF Len(parts) = 0 THEN <<>>
  ELSE IF Len(parts) = 1 THEN parts[1]
  ELSE parts[1] \o <<Slash>> \o Join(Tail(parts))

\* Array.prototype.filter(Boolean) on an array of strings
FilterBoolean(parts) == SelectSeq(parts, LAMBDA x : x # <<>>)

\* String.prototype.startsWith(prefix)
StartsWith(s, prefix) == Len(prefix) <= Len(s) /\ SubSeq(s, 1, Len(prefix)) = prefix

\* String.prototype.includes(sub)
Includes(s, sub) ==
  \E i \in 1..(Len(s) - Len(sub) + 1) : SubSeq(s, i, i + Len(sub) - 1) = sub

\* String.prototype.split(sep) for a non-empty separator string
RECURSIVE SplitStr(_, _)
SplitStr(s, sep) ==
  IF ~Includes(s, sep) THEN <<s>>
  ELSE LET i == CHOOSE k \in 1..(Len(s) - Len(sep) + 1) :
                  /\ SubSeq(s, k, k + Len(sep) - 1) = sep
                  /\ \A j \in 1..(k - 1) : SubSeq(s, j, j + Len(sep) - 1) # sep
       IN <<SubSeq(s, 1, i - 1)>> \o SplitStr(SubSeq(s, i + Len(sep), Len(s)), sep)

\* Array.prototype.join(sep)
RECURSIVE JoinStr(_, _)
JoinStr(parts, sep) ==
  IF Len(parts) = 0 THEN <<>>
  ELSE IF Len(parts) = 1 THEN parts[1]
  ELSE parts[1] \o sep \o JoinStr(Tail(parts), sep)

\* every position at which sub starts, overlapping ones included
MatchCountOverlapping(s, sub) ==
  Cardinality({i \in 1..(Len(s) - Len(sub) + 1) : SubSeq(s, i, i + Len(sub) - 1) = sub})

\* (content.match(new RegExp(escaped oldStr, "g")) || []).length: the matches
\* of the literal, found left to right, each starting where the last one ended
RECURSIVE MatchCount(_, _)
MatchCount(s, sub) ==
  IF Len(s) < Len(sub) THEN 0
  ELSE IF SubSeq(s, 1, Len(sub)) = sub
       THEN 1 + MatchCount(SubSeq(s, Len(sub) + 1, Len(s)), sub)
  ELSE MatchCount(Tail(s), sub)

\* String.prototype.replace(/\/+/g, "/")
RECURSIVE CollapseSlashes(_)
CollapseSlashes(s) ==
  IF Len(s) <= 1 THEN s
  ELSE IF s[1] = Slash /\ s[2] = Slash THEN CollapseSlashes(Tail(s))
  ELSE <<s[1]>> \o CollapseSlashes(Tail(s))

(***************************************************************************)
(* path-utils.ts                                                           *)
(***************************************************************************)
normalizePath(path) ==
  LET p1 == IF Len(path) > 0 /\ path[1] = Slash THEN path ELSE <<Slash>> \o path
      p2 == IF p1 # RootPath /\ Last(p1) = Slash THEN Front(p1) ELSE p1
  IN CollapseSlashes(p2)

getParentPath(path) ==
  LET normalized == normalizePath(path)
      parts == Front(Split(normalized))
  IN IF normalized = RootPath THEN RootPath
     ELSE IF Len(parts) = 1 THEN RootPath ELSE Join(parts)

getFileName(path) ==
  LET normalized == normalizePath(path)
  IN IF normalized = RootPath THEN RootPath ELSE Last(Split(normalized))

createDirectoryPath(targetPath) ==
  LET parts == FilterBoolean(Split(normalizePath(targetPath)))
  IN [i \in 1..(Len(parts) - 1) |-> <<Slash>> \o Join(SubSeq(parts, 1, i))]

isValidPath(path) == Len(path) > 0 /\ \A i \in 1..Len(path) : path[i] # NUL


(***************************************************************************)
(* Heap of FileNode objects and JavaScript Map operations                  *)
(*   nodes : object id -> [type, name, path, content, children]            *)
(*   files : path -> object id               (this.files)                  *)
(*   root  : object id                       (this.root)                   *)
(* A children map is a sequence of [name, id] entries: a Map iterates in   *)
(* insertion order, set() on a present key keeps the key's position.       *)
(***************************************************************************)
NoNode == 0

FileNodeNoContent(type, name, path, content) ==
  [type |-> type, name |-> name, path |-> path, content |-> <<>>,
   children |-> <<>>]
FileNode(type, name, path, content) ==
  [type |-> type, name |-> name, path |-> path, content |-> content,
   children |-> <<>>]

MapSet(m, k, v) == [x \in DOMAIN m \cup {k} |-> IF x = k THEN v ELSE m[x]]
MapDelete(m, k) == [x \in DOMAIN m \ {k} |-> m[x]]
MapGet(m, k) == IF k \in DOMAIN m THEN m[k] ELSE NoNode

ChildHas(ch, name) == \E i \in 1..Len(ch) : ch[i].name = name
ChildSet(ch, name, id) ==
  IF ChildHas(ch, name)
  THEN [i \in 1..Len(ch) |-> IF ch[i].name = name THEN [name |-> name, id |-> id]
                                                   ELSE ch[i]]
  ELSE Append(ch, [name |-> name, id |-> id])
ChildDelete(ch, name) == SelectSeq(ch, LAMBDA e : e.name # name)
ChildIds(ch) == {ch[i].id : i \in 1..Len(ch)}

VFS(n, f, r) == [nodes |-> n, files |-> f, root |-> r]
Res(st, ret) == [st |-> st, ret |-> ret]

\* a fresh object: the smallest id no object of the heap has
NewId(n) == CHOOSE i \in 1..(Cardinality(DOMAIN n) + 1) :
              i \notin DOMAIN n /\ \A j \in 1..(i - 1) : j \in DOMAIN n

(***************************************************************************)
(* Garbage collection: objects reachable neither from this.files nor from  *)
(* this.root are dropped and the remaining ones are numbered in a          *)
(* canonical order (root, then the index in key order, then the children   *)
(* found breadth first), so that a state does not depend on the order in   *)
(* which its objects were allocated.                                       *)
(***************************************************************************)
RECURSIVE SortedKeys(_)
SortedKeys(K) ==
  IF K = {} THEN <<>>
  ELSE LET m == CHOOSE k \in K : \A o \in K \ {k} : StrLess(k, o)
       IN <<m>> \o SortedKeys(K \ {m})

RECURSIVE AppendNew(_, _)
AppendNew(L, ids) ==
  IF Len(ids) = 0 THEN L
  ELSE AppendNew(IF \E i \in 1..Len(L) : L[i] = ids[1] THEN L
                 ELSE Append(L, ids[1]), Tail(ids))

RECURSIVE Bfs(_, _, _)
Bfs(n, L, i) ==
  IF i > Len(L) THEN L
  ELSE LET ch == n[L[i]].children
       IN Bfs(n, AppendNew(L, [j \in 1..Len(ch) |-> ch[j].id]), i + 1)

Collect(st) ==
  LET keys == SortedKeys(DOMAIN st.files)
      seed == AppendNew(<<st.root>>, [i \in 1..Len(keys) |-> st.files[keys[i]]])
      L == Bfs(st.nodes, seed, 1)
      new(id) == CHOOSE i \in 1..Len(L) : L[i] = id
      ren(ch) == [j \in 1..Len(ch) |-> [name |-> ch[j].name, id |-> new(ch[j].id)]]
  IN VFS([i \in 1..Len(L) |-> [st.nodes[L[i]] EXCEPT !.children = ren(@)]],
         [k \in DOMAIN st.files |-> new(st.files[k])],
         new(st.root))

(***************************************************************************)
(* VirtualFileSystem.  Every operation is an operator from the state        *)
(* st = [nodes, files, root] to [st, ret]: the state the call leaves and    *)
(* what it returns ("throw" when it raises).                                *)
(***************************************************************************)
\* The engine's call-stack depth left to a recursive descent.  It depends on
\* the engine and on the caller's stack, so it is one of several values; each is
\* deeper than any acyclic tree within the bounds, so that only a descent that
\* never ends exhausts it.
StackDepth == MaxNodes + 3
StackDepths == {StackDepth, StackDepth + 1}

\* normalized === "/"
IsRootNever(normalized) == FALSE
IsRoot(normalized) == normalized = RootPath

\* this.files.has(normalized)
filesHasNever(st, normalized) == FALSE
filesHas(st, normalized) == normalized \in DOMAIN st.files

validatePathNoLength(path) == isValidPath(path)
validatePath(path) == isValidPath(path) /\ ~(StrLength(path) > MAX_PATH_LENGTH)
validateContentNever(content) == TRUE
validateContent(content) == ~(StrLength(content) > MAX_FILE_SIZE)

getParentNode(st, path) == MapGet(st.files, getParentPath(path))

\* !parent || parent.type !== "directory"
NotDirectoryMissingOnly(st, parent) == parent = NoNode
NotDirectory(st, parent) == parent = NoNode \/ st.nodes[parent].type # "directory"

exists(st, path) == isValidPath(path) /\ normalizePath(path) \in DOMAIN st.files

getNode(st, path) ==
  IF ~isValidPath(path) THEN NoNode ELSE MapGet(st.files, normalizePath(path))

\* the three queries as calls: the state they leave and what they return
existsCall(st, path) == Res(st, IF exists(st, path) THEN "true" ELSE "false")
getNodeCall(st, path) == Res(st, IF getNode(st, path) = NoNode THEN "null" ELSE "node")

\* the insertion of a new object under its parent, shared by createFile and
\* createDirectory: this.files.set(normalized, node); parent.children.set(name, node)
Insert(st, parent, node) ==
  LET id == NewId(st.nodes)
      n1 == MapSet(st.nodes, id, node)
  IN VFS([n1 EXCEPT ![parent].children = ChildSet(@, node.name, id)],
         MapSet(st.files, node.path, id),
         st.root)

createDirectory(st, path) ==
  IF ~validatePath(path) THEN Res(st, "throw")
  ELSE LET normalized == normalizePath(path)
           parent == getParentNode(st, normalized)
       IN IF filesHas(st, normalized) THEN Res(st, "null")
          ELSE IF NotDirectory(st, parent)
               THEN Res(st, "null")
          ELSE Res(Insert(st, parent,
                          FileNode("directory", getFileName(normalized), normalized, <<>>)),
                   "node")

\* createDirectory cannot raise here: a directory path is a non-empty prefix of
\* a path that passed validatePath
RECURSIVE EnsureFrom(_, _, _)
EnsureFrom(st, directories, i) ==
  IF i > Len(directories) THEN st
  ELSE EnsureFrom(IF ~exists(st, directories[i])
                  THEN createDirectory(st, directories[i]).st ELSE st,
                  directories, i + 1)

ensureParentDirectories(st, path) == EnsureFrom(st, createDirectoryPath(path), 1)

createFile(st, path, content) ==
  IF ~validatePath(path) \/ ~validateContent(content) THEN Res(st, "throw")
  ELSE LET normalized == normalizePath(path)
           st1 == ensureParentDirectories(st, normalized)
           parent == getParentNode(st1, normalized)
       IN IF filesHas(st, normalized) THEN Res(st, "null")
          ELSE IF NotDirectory(st1, parent)
               THEN Res(st1, "null")
          ELSE Res(Insert(st1, parent,
                          FileNode("file", getFileName(normalized), normalized, content)),
                   "node")

\* [kind, val]: kind is "throw", "null" or "content"
readFile(st, path) ==
  IF ~validatePath(path) THEN [kind |-> "throw", val |-> <<>>]
  ELSE LET file == MapGet(st.files, normalizePath(path))
       IN IF file = NoNode \/ st.nodes[file].type # "file"
          THEN [kind |-> "null", val |-> <<>>]
          ELSE [kind |-> "content", val |-> st.nodes[file].content]

updateFileWritingFirst(st, path, content) ==
  IF ~validatePath(path) \/ ~validateContent(content) THEN Res(st, "throw")
  ELSE LET file == MapGet(st.files, normalizePath(path))
       IN IF file = NoNode THEN Res(st, "false")
          ELSE Res([st EXCEPT !.nodes[file].content = content],
                   IF st.nodes[file].type # "file" THEN "false" ELSE "true")
updateFile(st, path, content) ==
  IF ~validatePath(path) \/ ~validateContent(content) THEN Res(st, "throw")
  ELSE LET file == MapGet(st.files, normalizePath(path))
       IN IF file = NoNode \/ st.nodes[file].type # "file" THEN Res(st, "false")
          ELSE Res([st EXCEPT !.nodes[file].content = content], "true")

\* [files, ok]: ok is FALSE when the descent exhausted the call stack
RECURSIVE deleteRecursively(_, _, _, _, _)
RECURSIVE DeleteChildren(_, _, _, _, _, _)
deleteRecursively(n, f, node, depth, lim) ==
  IF depth > lim THEN [files |-> f, ok |-> FALSE]
  ELSE IF n[node].type = "directory" THEN DeleteChildren(n, f, node, 1, depth, lim)
  ELSE [files |-> f, ok |-> TRUE]

DeleteChildren(n, f, node, i, depth, lim) ==
  IF i > Len(n[node].children) THEN [files |-> f, ok |-> TRUE]
  ELSE LET child == n[node].children[i].id
           r == deleteRecursively(n, f, child, depth + 1, lim)
       IN IF ~r.ok THEN r
          ELSE DeleteChildren(n, MapDelete(r.files, n[child].path), node, i + 1,
                              depth, lim)

deleteFile(st, path, lim) ==
  IF ~validatePath(path) THEN Res(st, "throw")
  ELSE LET normalized == normalizePath(path)
           file == MapGet(st.files, normalized)
           parent == getParentNode(st, normalized)
       IN IF file = NoNode \/ IsRoot(normalized) THEN Res(st, "false")
          ELSE IF NotDirectory(st, parent)
               THEN Res(st, "false")
          ELSE LET r == deleteRecursively(st.nodes, st.files, file, 1, lim)
               IN IF ~r.ok THEN Res([st EXCEPT !.files = r.files], "throw")
                  ELSE Res(VFS([st.nodes EXCEPT ![parent].children =
                                   ChildDelete(@, st.nodes[file].name)],
                               MapDelete(r.files, normalized),
                               st.root),
                           "true")

\* [nodes, files, ok]: ok is FALSE when the descent exhausted the call stack
RECURSIVE updateChildrenPaths(_, _, _, _, _)
RECURSIVE UpdateChildren(_, _, _, _, _, _)
updateChildrenPaths(n, f, node, depth, lim) ==
  IF depth > lim THEN [nodes |-> n, files |-> f, ok |-> FALSE]
  ELSE IF n[node].type = "directory" THEN UpdateChildren(n, f, node, 1, depth, lim)
  ELSE [nodes |-> n, files |-> f, ok |-> TRUE]

UpdateChildren(n, f, node, i, depth, lim) ==
  IF i > Len(n[node].children) THEN [nodes |-> n, files |-> f, ok |-> TRUE]
  ELSE LET child == n[node].children[i].id
           oldChildPath == n[child].path
           childPath == n[node].path \o <<Slash>> \o n[child].name
           n1 == [n EXCEPT ![child].path = childPath]
           f1 == MapSet(MapDelete(f, oldChildPath), childPath, child)
           r == IF n1[child].type = "directory"
                THEN updateChildrenPaths(n1, f1, child, depth + 1, lim)
                ELSE [nodes |-> n1, files |-> f1, ok |-> TRUE]
       IN IF ~r.ok THEN r
          ELSE UpdateChildren(r.nodes, r.files, node, i + 1, depth, lim)

rename(st, oldPath, newPath, lim) ==
  IF ~validatePath(oldPath) \/ ~validatePath(newPath) THEN Res(st, "throw")
  ELSE LET normalizedOld == normalizePath(oldPath)
           normalizedNew == normalizePath(newPath)
           sourceNode == MapGet(st.files, normalizedOld)
           oldParent == getParentNode(st, normalizedOld)
           st1 == ensureParentDirectories(st, normalizedNew)
           newParent == getParentNode(st1, normalizedNew)
           newName == getFileName(normalizedNew)
           \* oldParent.children.delete(sourceNode.name)
           n2 == [st1.nodes EXCEPT ![oldParent].children =
                                      ChildDelete(@, st1.nodes[sourceNode].name)]
           \* sourceNode.name = newName; sourceNode.path = normalizedNew
           n3 == [n2 EXCEPT ![sourceNode].name = newName,
                            ![sourceNode].path = normalizedNew]
           \* newParent.children.set(newName, sourceNode)
           n4 == [n3 EXCEPT ![newParent].children = ChildSet(@, newName, sourceNode)]
           f4 == MapSet(MapDelete(st1.files, normalizedOld), normalizedNew, sourceNode)
           r == updateChildrenPaths(n4, f4, sourceNode, 1, lim)
       IN IF IsRoot(normalizedOld) \/ IsRoot(normalizedNew) THEN Res(st, "false")
          ELSE IF sourceNode = NoNode \/ filesHas(st, normalizedNew)
               THEN Res(st, "false")
          ELSE IF NotDirectory(st, oldParent)
               THEN Res(st, "false")
          ELSE IF NotDirectory(st1, newParent)
               THEN Res(st1, "false")
          ELSE IF n4[sourceNode].type = "directory"
               THEN Res(VFS(r.nodes, r.files, st.root), IF r.ok THEN "true" ELSE "throw")
          ELSE Res(VFS(n4, f4, st.root), "true")

listDirectory(st, path) ==
  LET dir == getNode(st, path)
  IN IF dir = NoNode \/ st.nodes[dir].type # "directory" THEN NoNode
     ELSE st.nodes[dir].children

listDirectoryCall(st, path) ==
  Res(st, IF listDirectory(st, path) = NoNode THEN "null" ELSE "array")

\* path -> content of every file node of the index
getAllFiles(st) ==
  [p \in {k \in DOMAIN st.files : st.nodes[st.files[k]].type = "file"} |->
     st.nodes[st.files[p]].content]

reset(st) ==
  LET id == NewId(st.nodes)
  IN VFS(MapSet(st.nodes, id, FileNode("directory", RootPath, RootPath, <<>>)),
         MapSet(<<>>, RootPath, id),
         id)

\* data: path -> [type, content].  The keys are taken in sorted order; a call
\* that raises leaves what the earlier keys built.
RECURSIVE LoadParents(_, _, _)
LoadParents(st, parts, i) ==
  IF i > Len(parts) - 1 THEN st
  ELSE LET currentPath == <<Slash>> \o Join(SubSeq(parts, 1, i))
       IN LoadParents(IF ~exists(st, currentPath)
                      THEN createDirectory(st, currentPath).st ELSE st,
                      parts, i + 1)

RECURSIVE LoadFrom(_, _, _, _)
LoadFrom(st, data, paths, i) ==
  IF i > Len(paths) THEN Res(st, "void")
  ELSE IF paths[i] = RootPath THEN LoadFrom(st, data, paths, i + 1)
  ELSE LET path == paths[i]
           node == data[path]
           st1 == LoadParents(st, FilterBoolean(Split(path)), 1)
           r == IF node.type = "file" THEN createFile(st1, path, node.content)
                ELSE createDirectory(st1, path)
       IN IF r.ret = "throw" THEN r ELSE LoadFrom(r.st, data, paths, i + 1)

deserializeFromNodes(st, data) ==
  LoadFrom(VFS([st.nodes EXCEPT ![st.root].children = <<>>],
               MapSet(<<>>, RootPath, st.root),
               st.root),
           data, SortedKeys(DOMAIN data), 1)

\* path -> descriptor, for every entry of the index; a directory's descriptor
\* has no content property (here the empty string, which no reader of a
\* directory descriptor looks at)
serialize(st) ==
  [p \in DOMAIN st.files |->
     LET node == st.nodes[st.files[p]]
     IN [type |-> node.type, name |-> node.name, path |-> node.path,
         content |-> IF node.type = "directory" THEN <<>> ELSE node.content]]

\* data: path -> content.  Every key is created as a file.
RECURSIVE LoadFilesFrom(_, _, _, _)
LoadFilesFrom(st, data, paths, i) ==
  IF i > Len(paths) THEN Res(st, "void")
  ELSE LET path == paths[i]
           st1 == LoadParents(st, FilterBoolean(Split(path)), 1)
           r == createFile(st1, path, data[path])
       IN IF r.ret = "throw" THEN r ELSE LoadFilesFrom(r.st, data, paths, i + 1)

deserialize(st, data) ==
  LoadFilesFrom(VFS([st.nodes EXCEPT ![st.root].children = <<>>],
                    MapSet(<<>>, RootPath, st.root),
                    st.root),
                data, SortedKeys(DOMAIN data), 1)

\* deserialize(serialize()): deserialize reads data[path] as the content, and
\* serialize's value at a path is a descriptor object.  The object itself is
\* what createFile stores (an object has no length, so validateContent lets it
\* pass); it is written here as one element no file content is made of.
DescriptorAsContent(desc) == <<"[object Object]">>
\* the reading in which the descriptor's content property is handed over
\* instead (undefined for a directory, which createFile defaults to "")
DescriptorContent(desc) == desc.content

(***************************************************************************)
(* Text editor commands.  Each returns [st, ret] with ret the status: the   *)
(* message before the interpolated arguments, and the number it reports     *)
(* (msg "throw" when the call raises instead of returning).                 *)
(***************************************************************************)
Status(msg, n) == [msg |-> msg, n |-> n]
Raised == Status("throw", 0)

\* result.startsWith("Error:")
StartsWithError(ret) ==
  ret.msg \in {"Error: File already exists", "Error: File not found",
               "Error: Cannot edit a directory", "Error: String not found in file",
               "Error: Invalid line number"}

\* the loop over the parent directories is the loop of deserializeFromNodes; a
\* createDirectory that raises in it raises for every longer prefix and for
\* path itself, so the call raises with nothing created by the raising calls
createFileWithParents(st, path, content) ==
  IF exists(st, path) THEN Res(st, Status("Error: File already exists", 0))
  ELSE LET st1 == LoadParents(st, FilterBoolean(Split(path)), 1)
           r == createFile(st1, path, content)
       IN IF r.ret = "throw" THEN Res(r.st, Raised)
          ELSE Res(r.st, Status("File created", 0))

\* the content the editor commands read: this.readFile(path) || ""
EditorContent(st, path) ==
  LET c == readFile(st, path)
  IN [throw |-> c.kind = "throw", val |-> IF c.kind = "content" THEN c.val ELSE <<>>]

\* the write the editor commands end with: this.updateFile(path, updatedContent),
\* whose boolean result is dropped
EditorWrite(st, path, updatedContent, status) ==
  LET u == updateFile(st, path, updatedContent)
  IN IF u.ret = "throw" THEN Res(u.st, Raised) ELSE Res(u.st, status)

replaceInFile(st, path, oldStr, newStr) ==
  LET file == getNode(st, path)
      content == EditorContent(st, path)
  IN IF file = NoNode THEN Res(st, Status("Error: File not found", 0))
     ELSE IF st.nodes[file].type # "file"
          THEN Res(st, Status("Error: Cannot edit a directory", 0))
     ELSE IF content.throw THEN Res(st, Raised)
     ELSE IF oldStr = <<>> \/ ~Includes(content.val, oldStr)
          THEN Res(st, Status("Error: String not found in file", 0))
     ELSE EditorWrite(st, path, JoinStr(SplitStr(content.val, oldStr), newStr),
                      Status("Replaced", MatchCount(content.val, oldStr)))

\* lines.splice(insertLine, 0, text)
Splice(lines, insertLine, text) ==
  SubSeq(lines, 1, insertLine) \o <<text>> \o SubSeq(lines, insertLine + 1, Len(lines))

\* insertLine < 0 || insertLine > lines.length
InvalidLineAtEnd(insertLine, lines) == insertLine < 0 \/ insertLine >= Len(lines)
InvalidLine(insertLine, lines) == insertLine < 0 \/ insertLine > Len(lines)

insertInFile(st, path, insertLine, text) ==
  LET file == getNode(st, path)
      content == EditorContent(st, path)
      lines == SplitStr(content.val, <<NL>>)
  IN IF file = NoNode THEN Res(st, Status("Error: File not found", 0))
     ELSE IF st.nodes[file].type # "file"
          THEN Res(st, Status("Error: Cannot edit a directory", 0))
     ELSE IF content.throw THEN Res(st, Raised)
     ELSE IF InvalidLine(insertLine, lines)
          THEN Res(st, Status("Error: Invalid line number", Len(lines)))
     ELSE EditorWrite(st, path, JoinStr(Splice(lines, insertLine, text), <<NL>>),
                      Status("Text inserted", insertLine))

(***************************************************************************)
(* Inputs                                                                  *)
(***************************************************************************)
Chars == {Slash, "a", "b"}
StringsUpTo(n) == UNION {[1..k -> Chars] : k \in 0..n}

\* the paths the calls of the state machine are made with:
\* "/", "/a", "/b", "/a/b", "/a//", "/a/b/a"
PathArgs ==
  { <<"/">>, <<"/", "a">>, <<"/", "b">>,
    <<"/", "a", "/", "b">>, <<"/", "a", "/", "/">>,
    <<"/", "a", "/", "b", "/", "a">> }

\* the paths the operations are examined with in every reachable state:
\* PathArgs and "", "b", "//", "/b/", "/b/a", "/a/a"
ProbePaths ==
  PathArgs \cup { <<>>, <<"b">>, <<"/", "/">>, <<"/", "b", "/">>,
                  <<"/", "b", "/", "a">>, <<"/", "a", "/", "a">> }

Contents == { <<>>, <<"x">> }

\* paths that validation refuses: "", "/a\0", and "/" followed by
\* MAX_PATH_LENGTH characters
InvalidProbes == { <<>>, <<"/", "a", NUL>>, <<"/", LongName>> }

\* node descriptors and the data a persistence layer may hand back
NodeDescs == { [type |-> "file", content |-> <<"x">>],
               [type |-> "directory", content |-> <<>>] }
DataKeys == { <<"/">>, <<"/", "b">>, <<"/", "a", "/", "b">> }
DataArgs == UNION {[K -> NodeDescs] : K \in SUBSET DataKeys}

(***************************************************************************)
(* The state machine of one VirtualFileSystem object                       *)
(***************************************************************************)
Cur == VFS(nodes, files, root)

\* useState<string | null>(null): null is the empty sequence here (null and
\* the empty string are equally falsy, and no path selected is empty)
NoSelection == <<>>

\* no build result, no document, no effect run yet
NoBuild == <<>>
NoDocument == <<>>
NoDeps == <<>>
\* useState<string | null>(null) of the PreviewFrame
NoError == "null"

\* the pipeline and the PreviewFrame before anything ran:
\* useState("/App.jsx"), useState(null), useState(true)
InitPipeline ==
  /\ snapshot = <<>>
  /\ built = NoBuild
  /\ entryPoint = <<"/", "A", "p", "p", ".", "j", "s", "x">>
  /\ previewHTML = NoDocument
InitFrame ==
  /\ error = NoError
  /\ isFirstLoad = TRUE
  /\ effectDeps = NoDeps

\* no row of the RateLimit table, no entry of a Map
NoRow == <<>>
NewRequest == [pc |-> "new", now |-> 0, existing |-> NoRow, event |-> 0, result |-> <<>>]
InitServer ==
  /\ clock = 0
  /\ rateLimitTable = NoRow
  /\ fallbackRateLimitStore = NoRow
  /\ requests = [r \in 1..MaxRequests |-> NewRequest]
  /\ failedAttempts = NoRow
  /\ signIns = [s \in 1..MaxSignIns |-> "idle"]
  /\ recorded = <<>>
  /\ signInResult = "none"
  /\ auditBuffer = <<>>
  /\ auditLog = <<>>
  /\ flushes = {}
  /\ flushTimer = TRUE
  /\ logged = 0
  /\ returned = {}
  /\ initialized = FALSE
  /\ callers = [c \in 1..MaxCalls |-> "idle"]
  /\ bodyRuns = 0

Init ==
  /\ nodes = <<FileNode("directory", RootPath, RootPath, <<>>)>>
  /\ files = MapSet(<<>>, RootPath, 1)
  /\ root = 1
  /\ normIn = <<>>
  /\ normOut = <<>>
  /\ selectedFile = NoSelection
  /\ refreshTrigger = 0
  /\ InitPipeline
  /\ InitFrame
  /\ InitServer

\* what a call that leaves the state st does to the VirtualFileSystem object
VfsStep(st) ==
  IF st = Cur THEN UNCHANGED vfsVars
  ELSE LET c == Collect(st)
       IN /\ Len(c.nodes) <= MaxNodes
          /\ nodes' = c.nodes
          /\ files' = c.files
          /\ root' = c.root

\* the step a call makes that leaves the state st
Step(st) == VfsStep(st) /\ UNCHANGED <<normVars, provVars, pipeVars, frameVars, serverVars>>

CreateFile == \E p \in PathArgs, c \in Contents : Step(createFile(Cur, p, c).st)
CreateDirectory == \E p \in PathArgs : Step(createDirectory(Cur, p).st)
UpdateFile == \E p \in PathArgs, c \in Contents : Step(updateFile(Cur, p, c).st)
\* a call that exhausts the stack at one depth exhausts it at every depth
DeleteFile ==
  \E p \in PathArgs :
     LET r == deleteFile(Cur, p, StackDepth)
     IN IF r.ret # "throw" THEN Step(r.st)
        ELSE \E lim \in StackDepths : Step(deleteFile(Cur, p, lim).st)
Rename ==
  \E p \in PathArgs, q \in PathArgs :
     LET r == rename(Cur, p, q, StackDepth)
     IN IF r.ret # "throw" THEN Step(r.st)
        ELSE \E lim \in StackDepths : Step(rename(Cur, p, q, lim).st)
Reset == Step(reset(Cur))
DeserializeFromNodes == \E d \in DataArgs : Step(deserializeFromNodes(Cur, d).st)

Next ==
  \/ CreateFile
  \/ CreateDirectory
  \/ UpdateFile
  \/ DeleteFile
  \/ Rename
  \/ Reset
  \/ DeserializeFromNodes

Spec == Init /\ [][Next]_vars

(***************************************************************************)
(* The path functions as pure functions of an input string                 *)
(***************************************************************************)
InitNorm ==
  /\ nodes = <<FileNode("directory", RootPath, RootPath, <<>>)>>
  /\ files = MapSet(<<>>, RootPath, 1)
  /\ root = 1
  /\ normIn \in StringsUpTo(MaxLen)
  /\ normOut = <<>>
  /\ selectedFile = NoSelection
  /\ refreshTrigger = 0
  /\ InitPipeline
  /\ InitFrame
  /\ InitServer

\* normOut[1] = normalizePath(normIn), normOut[2] = normalizePath(normOut[1])
Normalize ==
  /\ Len(normOut) < 2
  /\ normOut' = Append(normOut, normalizePath(IF normOut = <<>> THEN normIn
                                              ELSE Last(normOut)))
  /\ UNCHANGED <<normIn, nodes, files, root, selectedFile, refreshTrigger, pipeVars, frameVars, serverVars>>

NextNorm == Normalize

SpecNorm == InitNorm /\ [][NextNorm]_vars

(***************************************************************************)
(* The editing session on one VirtualFileSystem: a file "/a" is written,   *)
(* edited with the text editor commands and deleted; "/a/b" is created     *)
(* with its parents.                                                       *)
(***************************************************************************)
EditPath == <<"/", "a">>
EditPaths == {EditPath, <<"/", "a", "/", "b">>}

\* contents written whole: "", "x", "xyx", a content of exactly MAX_FILE_SIZE
\* characters and one of MAX_FILE_SIZE + 1
AtLimit == <<"y", LongText>>
OverLimit == <<"y", "y", LongText>>
EditContents == { <<>>, <<"x">>, <<"x", "y", "x">>, AtLimit, OverLimit }

\* strings searched for, and the texts put in their place or inserted
OldStrs == { <<>>, <<"x">>, <<"x", "x">>, <<"y">>, <<NL>> }
NewStrs == { <<>>, <<"x">>, <<"y", "y">>, <<NL>>, <<"x", "x">> }
LineArgs == (0 - 1)..(MaxContent + 1)

ContentsWithin(st) ==
  \A k \in DOMAIN st.files : Len(st.nodes[st.files[k]].content) <= MaxContent

StepEdit(st) == ContentsWithin(st) /\ Step(st)

EditCreateFile == \E c \in EditContents : StepEdit(createFile(Cur, EditPath, c).st)
EditUpdateFile == \E c \in EditContents : StepEdit(updateFile(Cur, EditPath, c).st)
EditDeleteFile == StepEdit(deleteFile(Cur, EditPath, StackDepth).st)
CreateFileWithParents ==
  \E p \in EditPaths, c \in EditContents : StepEdit(createFileWithParents(Cur, p, c).st)
ReplaceInFile ==
  \E p \in EditPaths, o \in OldStrs, n \in NewStrs : StepEdit(replaceInFile(Cur, p, o, n).st)
InsertInFile ==
  \E p \in EditPaths, l \in LineArgs, t \in NewStrs : StepEdit(insertInFile(Cur, p, l, t).st)

NextEdit ==
  \/ EditCreateFile
  \/ EditUpdateFile
  \/ EditDeleteFile
  \/ CreateFileWithParents
  \/ ReplaceInFile
  \/ InsertInFile

SpecEdit == Init /\ [][NextEdit]_vars

(***************************************************************************)
(* file-system-operations: the tool-call handlers.  A handler returns      *)
(*   st      the state of the VirtualFileSystem it leaves,                  *)
(*   sel     the selection after its onFileSelect calls,                    *)
(*   changed whether it called onFileChange,                                *)
(*   threw   whether an error left it.                                      *)
(* args is a record that has the fields the tool call came with: a field    *)
(* that is undefined is a field the record does not have.                   *)
(***************************************************************************)
Outcome(st, sel, changed, threw) ==
  [st |-> st, sel |-> sel, changed |-> changed, threw |-> threw]

\* path && ...: the field is there and is not the empty string
Truthy(args, f) == f \in DOMAIN args /\ args[f] # <<>>
Defined(args, f) == f \in DOMAIN args

\* const result = fileSystem.<command>(...); if (!result.startsWith("Error:")) onFileChange()
EditorOutcome(r, sel) ==
  IF r.ret = Raised THEN Outcome(r.st, sel, FALSE, TRUE)
  ELSE Outcome(r.st, sel, ~StartsWithError(r.ret), FALSE)

handleStrReplaceEditor(st, args, sel) ==
  IF ~Defined(args, "command") THEN Outcome(st, sel, FALSE, FALSE)
  ELSE IF args.command = "create"
       THEN IF Truthy(args, "path") /\ Defined(args, "file_text")
            THEN EditorOutcome(createFileWithParents(st, args.path, args.file_text), sel)
            ELSE Outcome(st, sel, FALSE, FALSE)
  ELSE IF args.command = "str_replace"
       THEN IF Truthy(args, "path") /\ Defined(args, "old_str") /\ Defined(args, "new_str")
            THEN EditorOutcome(replaceInFile(st, args.path, args.old_str, args.new_str), sel)
            ELSE Outcome(st, sel, FALSE, FALSE)
  ELSE IF args.command = "insert"
       THEN IF Truthy(args, "path") /\ Defined(args, "new_str") /\ Defined(args, "insert_line")
            THEN EditorOutcome(insertInFile(st, args.path, args.insert_line, args.new_str), sel)
            ELSE Outcome(st, sel, FALSE, FALSE)
  ELSE Outcome(st, sel, FALSE, FALSE)

\* the selection after a rename of path to new_path has succeeded
SelectionAfterRename(sel, path, newPath) ==
  IF sel = path THEN newPath
  ELSE IF sel # NoSelection /\ StartsWith(sel, path \o <<Slash>>)
       THEN newPath \o SubSeq(sel, Len(path) + 1, Len(sel))
  ELSE sel

\* the selection after a delete of path has succeeded
SelectionAfterDelete(sel, path) == IF sel = path THEN NoSelection ELSE sel

\* const success = fileSystem.rename(path, new_path); if (success) { select; onFileChange() }
RenameOutcome(r, path, newPath, sel) ==
  IF r.ret = "throw" THEN Outcome(r.st, sel, FALSE, TRUE)
  ELSE IF r.ret = "true"
       THEN Outcome(r.st, SelectionAfterRename(sel, path, newPath), TRUE, FALSE)
  ELSE Outcome(r.st, sel, FALSE, FALSE)

\* const success = fileSystem.deleteFile(path); if (success) { select; onFileChange() }
DeleteOutcome(r, path, sel) ==
  IF r.ret = "throw" THEN Outcome(r.st, sel, FALSE, TRUE)
  ELSE IF r.ret = "true"
       THEN Outcome(r.st, SelectionAfterDelete(sel, path), TRUE, FALSE)
  ELSE Outcome(r.st, sel, FALSE, FALSE)

handleFileManager(st, args, sel, lim) ==
  IF ~Defined(args, "command") THEN Outcome(st, sel, FALSE, FALSE)
  ELSE IF args.command = "rename"
       THEN IF Truthy(args, "path") /\ Truthy(args, "new_path")
            THEN RenameOutcome(rename(st, args.path, args.new_path, lim),
                               args.path, args.new_path, sel)
            ELSE Outcome(st, sel, FALSE, FALSE)
  ELSE IF args.command = "delete"
       THEN IF Truthy(args, "path")
            THEN DeleteOutcome(deleteFile(st, args.path, lim), args.path, sel)
            ELSE Outcome(st, sel, FALSE, FALSE)
  ELSE Outcome(st, sel, FALSE, FALSE)

\* toolCall: [toolName, args], args left out when the call has none
handleToolCall(st, toolCall, sel, lim) ==
  IF toolCall.toolName = "str_replace_editor" /\ Defined(toolCall, "args")
  THEN handleStrReplaceEditor(st, toolCall.args, sel)
  ELSE IF toolCall.toolName = "file_manager" /\ Defined(toolCall, "args")
       THEN handleFileManager(st, toolCall.args, sel, lim)
  ELSE Outcome(st, sel, FALSE, FALSE)

(***************************************************************************)
(* FileSystemProvider: the operations of the context, as outcomes           *)
(***************************************************************************)
\* fileSystem.<call>(...); triggerRefresh(): whatever the call returned
WriteOutcome(r, sel) ==
  IF r.ret = "throw" THEN Outcome(r.st, sel, FALSE, TRUE)
  ELSE Outcome(r.st, sel, TRUE, FALSE)

provCreateFile(st, path, content, sel) == WriteOutcome(createFile(st, path, content), sel)

provUpdateFile(st, path, content, sel) == WriteOutcome(updateFile(st, path, content), sel)

\* fileSystem.deleteFile(path); if (selectedFile === path) setSelectedFile(null); triggerRefresh()
DeletedOutcome(r, path, sel) ==
  IF r.ret = "throw" THEN Outcome(r.st, sel, FALSE, TRUE)
  ELSE Outcome(r.st, SelectionAfterDelete(sel, path), TRUE, FALSE)

provDeleteFile(st, path, sel, lim) == DeletedOutcome(deleteFile(st, path, lim), path, sel)

provRenameFile(st, oldPath, newPath, sel, lim) ==
  RenameOutcome(rename(st, oldPath, newPath, lim), oldPath, newPath, sel)

provReset(st) == Outcome(reset(st), NoSelection, TRUE, FALSE)

\* the effect that picks a file when none is selected: "/App.jsx" if it is a
\* file, else the first file of the root directory in sorted order
AppJsx == <<"/", "A", "p", "p", ".", "j", "s", "x">>
RootFiles(st) ==
  {k \in DOMAIN getAllFiles(st) : Len(FilterBoolean(Split(k))) = 1}
autoSelect(st, sel) ==
  IF sel # NoSelection THEN sel
  ELSE IF AppJsx \in DOMAIN getAllFiles(st) THEN AppJsx
  ELSE IF RootFiles(st) # {} THEN SortedKeys(RootFiles(st))[1]
  ELSE sel

(***************************************************************************)
(* The state machine of a FileSystemProvider: its VirtualFileSystem, its    *)
(* selection and its change epoch, driven by the operations of the context  *)
(* and by tool calls.                                                       *)
(***************************************************************************)
ProvPaths == { <<"/", "a">>, <<"/", "a", "/", "b">>, <<"/", "b">> }
\* "/b/" followed by MAX_PATH_LENGTH characters
TooLongBelowB == <<"/", "b", "/", LongName>>

EditorCalls ==
  { [command |-> "create", path |-> <<"/", "a">>, file_text |-> <<"x">>],
    [command |-> "create", path |-> TooLongBelowB, file_text |-> <<"x">>],
    [command |-> "create", path |-> <<"/", "a">>],
    [command |-> "str_replace", path |-> <<"/", "a">>, old_str |-> <<"x">>, new_str |-> <<>>],
    [command |-> "insert", path |-> <<"/", "a">>, insert_line |-> 0, new_str |-> <<"x">>],
    [command |-> "view", path |-> <<"/", "a">>] }
ManagerCalls ==
  {[command |-> "rename", path |-> p, new_path |-> q] : p \in ProvPaths, q \in ProvPaths}
    \cup {[command |-> "delete", path |-> p] : p \in ProvPaths}
ToolCalls ==
  {[toolName |-> "str_replace_editor", args |-> a] : a \in EditorCalls}
    \cup {[toolName |-> "file_manager", args |-> a] : a \in ManagerCalls}
    \cup {[toolName |-> "file_manager"]}

\* the step of an operation with outcome o: the epoch is followed up to MaxEpoch
ProvStep(o) ==
  /\ o.changed => refreshTrigger < MaxEpoch
  /\ ContentsWithin(o.st)
  /\ VfsStep(o.st)
  /\ selectedFile' = o.sel
  /\ refreshTrigger' = IF o.changed THEN refreshTrigger + 1 ELSE refreshTrigger
  /\ UNCHANGED <<normVars, pipeVars, frameVars, serverVars>>

ProvCreateFile ==
  \E p \in ProvPaths, c \in Contents :
     \E o \in {provCreateFile(Cur, p, c, selectedFile)} : ProvStep(o)
ProvUpdateFile ==
  \E p \in ProvPaths, c \in Contents :
     \E o \in {provUpdateFile(Cur, p, c, selectedFile)} : ProvStep(o)
\* the stack left to a call is any of StackDepths; a call that does not
\* exhaust it has the same outcome at each
ProvDeleteFile ==
  \E p \in ProvPaths, lim \in StackDepths :
     \E o \in {provDeleteFile(Cur, p, selectedFile, lim)} : ProvStep(o)
ProvRenameFile ==
  \E p \in ProvPaths, q \in ProvPaths, lim \in StackDepths :
     \E o \in {provRenameFile(Cur, p, q, selectedFile, lim)} : ProvStep(o)
ProvReset == \E o \in {provReset(Cur)} : ProvStep(o)
SetSelectedFile ==
  \E p \in ProvPaths \cup {NoSelection} :
     /\ selectedFile' = p
     /\ UNCHANGED <<vfsVars, normVars, refreshTrigger, pipeVars, frameVars, serverVars>>
AutoSelect ==
  /\ selectedFile' = autoSelect(Cur, selectedFile)
  /\ UNCHANGED <<vfsVars, normVars, refreshTrigger, pipeVars, frameVars, serverVars>>
HandleToolCall ==
  \E t \in ToolCalls, lim \in StackDepths :
     \E o \in {handleToolCall(Cur, t, selectedFile, lim)} : ProvStep(o)

NextProvider ==
  \/ ProvCreateFile
  \/ ProvUpdateFile
  \/ ProvDeleteFile
  \/ ProvRenameFile
  \/ ProvReset
  \/ SetSelectedFile
  \/ AutoSelect
  \/ HandleToolCall

SpecProvider == Init /\ [][NextProvider]_vars

(***************************************************************************)
(* Source text of a file as the build reads it.  A text is a sequence of    *)
(* characters in which some elements stand for a run of characters:         *)
(*   ImportFrom   "import X from " up to the opening quote of the specifier *)
(*   ImportBare   "import " in front of a quoted stylesheet specifier        *)
(*   Unparsable   a text Babel's parser rejects                              *)
(*   EvalCall     "eval(", one of the literal patterns createBlobURL refuses *)
(* and the words of Words, which are runs of lower-case letters.             *)
(***************************************************************************)
ImportFrom == "import X from "
ImportBare == "import "
Unparsable == "<unparsable>"
EvalCall == "eval("
Quote == "'"
Space == " "
Dot == "."
At == "@"
Equals == "="

Words == {"react", "dom", "client", "jsx", "runtime", "dev"}
LowerLetters == {"a", "b", "c", "j", "n", "o", "s", "t", "x"}
UpperLetters == {"A", "B", "N", "O"}
Digits == {"1", "9"}
\* [a-zA-Z0-9]
AlphaNumeric == LowerLetters \cup UpperLetters \cup Digits \cup Words
\* \w, and [a-z] under the i flag
WordChar(c) == c \in AlphaNumeric \/ c = "_"
Letter(c) == c \in LowerLetters \cup UpperLetters \cup Words

\* String.prototype.endsWith(suffix)
EndsWith(s, suffix) ==
  Len(suffix) <= Len(s) /\ SubSeq(s, Len(s) - Len(suffix) + 1, Len(s)) = suffix

\* String.prototype.substring(n)
Substring(s, n) == SubSeq(s, n + 1, Len(s))

\* String.prototype.replace(sub, rep) with a string pattern: the first occurrence
ReplaceFirst(s, sub, rep) ==
  IF ~Includes(s, sub) THEN s
  ELSE LET i == CHOOSE k \in 1..(Len(s) - Len(sub) + 1) :
                  /\ SubSeq(s, k, k + Len(sub) - 1) = sub
                  /\ \A j \in 1..(k - 1) : SubSeq(s, j, j + Len(sub) - 1) # sub
       IN SubSeq(s, 1, i - 1) \o rep \o SubSeq(s, i + Len(sub), Len(s))

JsExtensions == { <<".", "j", "s">>, <<".", "j", "s", "x">>, <<".", "t", "s">>, <<".", "t", "s", "x">> }
CssExtension == <<".", "c", "s", "s">>

\* /\.(js|jsx|ts|tsx)$/.test(path)
isJavaScriptFile(path) == \E e \in JsExtensions : EndsWith(path, e)

\* path.replace(/\.(jsx?|tsx?)$/, "")
WithoutExtension(path) ==
  IF isJavaScriptFile(path)
  THEN LET e == CHOOSE x \in JsExtensions :
                  EndsWith(path, x) /\ \A y \in JsExtensions : EndsWith(path, y) => Len(y) <= Len(x)
       IN SubSeq(path, 1, Len(path) - Len(e))
  ELSE path

\* resolveRelativePath(fromDir, relativePath)
RECURSIVE ResolveParts(_, _)
ResolveParts(parts, relParts) ==
  IF Len(relParts) = 0 THEN parts
  ELSE ResolveParts(IF relParts[1] = <<".", ".">> THEN (IF Len(parts) = 0 THEN parts ELSE Front(parts))
                    ELSE IF relParts[1] # <<".">> THEN Append(parts, relParts[1])
                    ELSE parts,
                    Tail(relParts))
resolveRelativePath(fromDir, relativePath) ==
  <<Slash>> \o Join(ResolveParts(FilterBoolean(Split(fromDir)), Split(relativePath)))

\* from.substring(0, from.lastIndexOf("/")): lastIndexOf is -1 when there is
\* no "/", and substring(0, -1) is the empty string
DirOf(from) ==
  IF ~Includes(from, <<Slash>>) THEN <<>>
  ELSE LET i == CHOOSE k \in 1..Len(from) :
                  from[k] = Slash /\ \A j \in (k + 1)..Len(from) : from[j] # Slash
       IN SubSeq(from, 1, i - 1)

(***************************************************************************)
(* jsx-transformer: transformJSX and createBlobURL                          *)
(***************************************************************************)
\* the specifier a statement that starts at i with the element kw has: the
\* characters between the quote at i + 1 and the next quote, at least one
SpecifierAt(code, i, kw) ==
  IF /\ code[i] = kw
     /\ i + 3 <= Len(code)
     /\ code[i + 1] = Quote
     /\ code[i + 2] # Quote
     /\ \E j \in (i + 3)..Len(code) : code[j] = Quote
  THEN LET j == CHOOSE k \in (i + 3)..Len(code) :
                  code[k] = Quote /\ \A m \in (i + 2)..(k - 1) : code[m] # Quote
       IN SubSeq(code, i + 2, j - 1)
  ELSE <<>>

\* cssImportRegex = /import\s+['"]([^'"]+\.css)['"]/g
CssSpecifierAt(code, i) ==
  IF EndsWith(SpecifierAt(code, i, ImportBare), CssExtension)
  THEN SpecifierAt(code, i, ImportBare) ELSE <<>>

\* a Set in insertion order: the specifiers found from position i on
RECURSIVE CssImportsFrom(_, _, _)
CssImportsFrom(code, i, acc) ==
  IF i > Len(code) THEN acc
  ELSE CssImportsFrom(code, i + 1,
         IF CssSpecifierAt(code, i) # <<>> THEN AppendNew(acc, <<CssSpecifierAt(code, i)>>)
         ELSE acc)

\* processedCode.replace(cssImportRegex, '')
RECURSIVE RemoveCssImports(_, _)
RemoveCssImports(code, i) ==
  IF i > Len(code) THEN <<>>
  ELSE IF CssSpecifierAt(code, i) # <<>>
       THEN RemoveCssImports(code, i + Len(CssSpecifierAt(code, i)) + 3)
  ELSE <<code[i]>> \o RemoveCssImports(code, i + 1)

\* importRegex, run over the code as given; specifiers that end with ".css" are skipped
RECURSIVE ImportsFrom(_, _, _)
ImportsFrom(code, i, acc) ==
  IF i > Len(code) THEN acc
  ELSE ImportsFrom(code, i + 1,
         IF /\ SpecifierAt(code, i, ImportFrom) # <<>>
            /\ ~EndsWith(SpecifierAt(code, i, ImportFrom), CssExtension)
         THEN AppendNew(acc, <<SpecifierAt(code, i, ImportFrom)>>)
         ELSE acc)

\* Babel.transform throws on a text its parser rejects, with a message that is
\* not empty; what it generates keeps the statements of the text
BabelRejects(processedCode) == Includes(processedCode, <<Unparsable>>)

transformJSX(code, filename, existingFiles) ==
  IF BabelRejects(RemoveCssImports(code, 1))
  THEN [code |-> <<>>, error |-> TRUE, missingImports |-> <<>>, cssImports |-> <<>>]
  ELSE [code |-> RemoveCssImports(code, 1), error |-> FALSE,
        missingImports |-> ImportsFrom(code, 1, <<>>),
        cssImports |-> CssImportsFrom(code, 1, <<>>)]

\* /\bon[a-z]+\s*=/i matches at i
OnHandlerAt(code, i) ==
  /\ i + 3 <= Len(code)
  /\ code[i] \in {"o", "O"}
  /\ code[i + 1] \in {"n", "N"}
  /\ i = 1 \/ ~WordChar(code[i - 1])
  /\ \E j \in (i + 2)..(Len(code) - 1) :
        /\ \A k \in (i + 2)..j : Letter(code[k])
        /\ \E m \in (j + 1)..Len(code) :
              /\ code[m] = Equals
              /\ \A k \in (j + 1)..(m - 1) : code[k] = Space

\* dangerousPatterns: the literal ones are in a text as the element EvalCall
OnHandler(code) == \E i \in 1..Len(code) : OnHandlerAt(code, i)
Dangerous(code) == Includes(code, <<EvalCall>>) \/ OnHandler(code)

\* createBlobURL(code): blobs is the store of object URLs, a URL is the
\* position of its blob in the store; threw when the code is refused
BlobURL(n) == [kind |-> "blob", id |-> n]
createBlobURL(blobs, code) ==
  IF Dangerous(code) THEN [blobs |-> blobs, url |-> BlobURL(0), threw |-> TRUE]
  ELSE [blobs |-> Append(blobs, code), url |-> BlobURL(Len(blobs) + 1), threw |-> FALSE]

(***************************************************************************)
(* import-map-builder: ImportMapBuilder.  A location is a blob URL or an    *)
(* esm.sh URL, written as the part after CDN_BASE + "/".  The builder is    *)
(* the record of its fields, blobs the store its blob URLs point into;      *)
(* this.files is the snapshot, a sequence of [path, content] in the order   *)
(* of the Map.                                                              *)
(***************************************************************************)
CDN(rest) == [kind |-> "cdn", rest |-> rest]
REACT_VERSION == <<"1", "9">>

React == <<"react">>
ReactDom == <<"react", "-", "dom">>
ReactDomClient == <<"react", "-", "dom", "/", "client">>
ReactJsxRuntime == <<"react", "/", "jsx", "-", "runtime">>
ReactJsxDevRuntime == <<"react", "/", "jsx", "-", "dev", "-", "runtime">>

DEFAULT_IMPORTS ==
  (React :> CDN(React \o <<At>> \o REACT_VERSION))
    @@ (ReactDom :> CDN(ReactDom \o <<At>> \o REACT_VERSION))
    @@ (ReactDomClient :> CDN(ReactDom \o <<At>> \o REACT_VERSION \o <<"/">> \o <<"client">>))
    @@ (ReactJsxRuntime :> CDN(React \o <<At>> \o REACT_VERSION \o <<"/">> \o <<"jsx", "-", "runtime">>))
    @@ (ReactJsxDevRuntime :>
          CDN(React \o <<At>> \o REACT_VERSION \o <<"/">> \o <<"jsx", "-", "dev", "-", "runtime">>))

Paths(snap) == {snap[i].path : i \in 1..Len(snap)}
\* this.files.has(path)
filesHasPath(snap, path) == path \in Paths(snap)

NewBuilder ==
  [imports |-> DEFAULT_IMPORTS, styles |-> <<>>, errors |-> <<>>,
   transformedFiles |-> <<>>, allImports |-> <<>>, allCssImports |-> <<>>,
   blobs |-> <<>>, threw |-> FALSE]

\* this.imports[k] = v for the keys of a list, in its order
RECURSIVE SetAll(_, _, _)
SetAll(imports, keys, v) ==
  IF Len(keys) = 0 THEN imports
  ELSE SetAll(MapSet(imports, keys[1], v), Tail(keys), v)

\* the specifier forms addImportVariations registers, in its order
ImportVariations(path) ==
  <<path>>
    \o (IF StartsWith(path, <<Slash>>)
        THEN <<Substring(path, 1), <<At>> \o path, <<"@", "/">> \o Substring(path, 1)>>
        ELSE <<>>)
    \o <<WithoutExtension(path)>>
    \o (IF StartsWith(path, <<Slash>>)
        THEN <<Substring(WithoutExtension(path), 1), <<At>> \o WithoutExtension(path),
               <<"@", "/">> \o Substring(WithoutExtension(path), 1)>>
        ELSE <<>>)

addImportVariations(imports, path, blobUrl) == SetAll(imports, ImportVariations(path), blobUrl)

\* !imp.startsWith(".") && !imp.startsWith("/") && !imp.startsWith("@/")
isPackage(imp) ==
  ~StartsWith(imp, <<Dot>>) /\ ~StartsWith(imp, <<Slash>>) /\ ~StartsWith(imp, <<"@", "/">>)

\* missingImports.forEach(...)
RECURSIVE CollectImports(_, _, _)
CollectImports(b, missingImports, i) ==
  IF i > Len(missingImports) THEN b
  ELSE CollectImports(
         IF isPackage(missingImports[i])
         THEN [b EXCEPT !.imports = MapSet(@, missingImports[i], CDN(missingImports[i]))]
         ELSE [b EXCEPT !.allImports = AppendNew(@, <<missingImports[i]>>)],
         missingImports, i + 1)

\* cssImports.forEach(...): every object added to the Set is a new one
CollectCssImports(b, path, cssImports) ==
  [b EXCEPT !.allCssImports =
     @ \o [i \in 1..Len(cssImports) |-> [from |-> path, cssPath |-> cssImports[i]]]]

ErrorEntry(path, message) == [path |-> path, error |-> message]

\* the try block of processJavaScriptFile, u what createBlobURL(code) gave
Materialize(b, path, t, u) ==
  IF u.threw
  THEN [b EXCEPT !.errors = Append(@, ErrorEntry(path, "dangerous patterns"))]
  ELSE CollectCssImports(
         CollectImports([b EXCEPT !.blobs = u.blobs,
                                  !.transformedFiles = MapSet(@, path, u.url),
                                  !.imports = addImportVariations(@, path, u.url)],
                        t.missingImports, 1),
         path, t.cssImports)

\* t what transformJSX gave
TransformedAborting(b, path, t) ==
  IF t.error THEN [b EXCEPT !.threw = TRUE]
  ELSE Materialize(b, path, t, createBlobURL(b.blobs, t.code))
Transformed(b, path, t) ==
  IF t.error THEN [b EXCEPT !.errors = Append(@, ErrorEntry(path, "transform error"))]
  ELSE Materialize(b, path, t, createBlobURL(b.blobs, t.code))

processJavaScriptFile(b, path, content, existingFiles) ==
  Transformed(b, path, transformJSX(content, path, existingFiles))

processCSSFile(b, path, content) ==
  [b EXCEPT !.styles = @ \o <<"/* ">> \o path \o <<" */", NL>> \o content \o <<NL, NL>>]

RECURSIVE ProcessFilesFrom(_, _, _)
ProcessFilesFrom(b, snap, i) ==
  IF i > Len(snap) THEN b
  ELSE ProcessFilesFrom(
         IF isJavaScriptFile(snap[i].path)
         THEN processJavaScriptFile(b, snap[i].path, snap[i].content, Paths(snap))
         ELSE IF EndsWith(snap[i].path, CssExtension)
              THEN processCSSFile(b, snap[i].path, snap[i].content)
         ELSE b,
         snap, i + 1)
processFiles(b, snap) == ProcessFilesFrom(b, snap, 1)

ResolvedCssPath(from, cssPath) ==
  IF StartsWith(cssPath, <<"@", "/">>) THEN ReplaceFirst(cssPath, <<"@", "/">>, <<"/">>)
  ELSE IF StartsWith(cssPath, <<".", "/">>) \/ StartsWith(cssPath, <<".", ".", "/">>)
       THEN resolveRelativePath(DirOf(from), cssPath)
  ELSE cssPath

RECURSIVE ProcessCssImportsFrom(_, _, _)
ProcessCssImportsFrom(b, snap, i) ==
  IF i > Len(b.allCssImports) THEN b
  ELSE ProcessCssImportsFrom(
         IF ~filesHasPath(snap, ResolvedCssPath(b.allCssImports[i].from,
                                                b.allCssImports[i].cssPath))
         THEN [b EXCEPT !.styles = @ \o <<"/* ">> \o b.allCssImports[i].cssPath
                                      \o <<" not found */", NL>>]
         ELSE b,
         snap, i + 1)
processCssImports(b, snap) == ProcessCssImportsFrom(b, snap, 1)

\* the forms createPlaceholderModules looks an import up under
PlaceholderVariations(importPath) ==
  << importPath,
     importPath \o <<".", "j", "s", "x">>,
     importPath \o <<".", "t", "s", "x">>,
     importPath \o <<".", "j", "s">>,
     importPath \o <<".", "t", "s">>,
     ReplaceFirst(importPath, <<"@", "/">>, <<"/">>),
     ReplaceFirst(importPath, <<"@", "/">>, <<"/">>) \o <<".", "j", "s", "x">>,
     ReplaceFirst(importPath, <<"@", "/">>, <<"/">>) \o <<".", "t", "s", "x">> >>

Found(b, snap, importPath) ==
  \E i \in 1..Len(PlaceholderVariations(importPath)) :
     \/ PlaceholderVariations(importPath)[i] \in DOMAIN b.imports
     \/ filesHasPath(snap, PlaceholderVariations(importPath)[i])

\* importPath.match(/\/([^\/]+)$/) ? match[1] : importPath.replace(/[^a-zA-Z0-9]/g, "")
ComponentName(importPath) ==
  IF Includes(importPath, <<Slash>>) /\ Last(importPath) # Slash
  THEN Substring(importPath, Len(DirOf(importPath)) + 1)
  ELSE SelectSeq(importPath, LAMBDA c : c \in AlphaNumeric)

\* createPlaceholderModule(componentName)
createPlaceholderModule(componentName) ==
  <<"import React from 'react'; const ">> \o componentName
    \o <<Space, Equals, " function() { return React.createElement('div', {}, null); } export default ">>
    \o componentName \o <<"; export { ">> \o componentName \o <<" };">>

\* u what createBlobURL(placeholderCode) gave; an error it throws leaves build()
Placeholder(b, importPath, u) ==
  IF u.threw THEN [b EXCEPT !.threw = TRUE]
  ELSE [b EXCEPT !.blobs = u.blobs,
                 !.imports =
                    SetAll(@, <<importPath>>
                               \o (IF StartsWith(importPath, <<"@", "/">>)
                                   THEN <<ReplaceFirst(importPath, <<"@", "/">>, <<"/">>),
                                          ReplaceFirst(importPath, <<"@", "/">>, <<>>)>>
                                   ELSE <<>>),
                           u.url)]

PlaceholderFor(b, snap, importPath) ==
  IF importPath \in DOMAIN b.imports \/ StartsWith(importPath, React) THEN b
  ELSE IF isPackage(importPath)
       THEN [b EXCEPT !.imports = MapSet(@, importPath, CDN(importPath))]
  ELSE IF Found(b, snap, importPath) THEN b
  ELSE Placeholder(b, importPath,
                   createBlobURL(b.blobs, createPlaceholderModule(ComponentName(importPath))))

RECURSIVE PlaceholdersFrom(_, _, _)
PlaceholdersFrom(b, snap, i) ==
  IF b.threw \/ i > Len(b.allImports) THEN b
  ELSE PlaceholdersFrom(PlaceholderFor(b, snap, b.allImports[i]), snap, i + 1)
createPlaceholderModules(b, snap) == PlaceholdersFrom(b, snap, 1)

\* build(): the builder as build leaves it; it returns importMap (the JSON text
\* of { imports }, written here as the object the text denotes), styles and
\* errors, and returns nothing when threw
build(snap) == createPlaceholderModules(processCssImports(processFiles(NewBuilder, snap), snap), snap)

createImportMap(snap) == build(snap)

(***************************************************************************)
(* html-template: createPreviewHTML.  The document is the record of what    *)
(* the template embeds: the import map, the styles, and the parts of the    *)
(* body in their order.                                                     *)
(***************************************************************************)
Part(part, detail) == [part |-> part, detail |-> detail]

\* generateErrorDisplay(errors): "" for no errors, else the syntax-errors
\* block with one error-item per entry
generateErrorDisplay(errors) ==
  IF Len(errors) = 0 THEN <<>>
  ELSE <<Part("syntax-errors", [i \in 1..Len(errors) |-> errors[i].path])>>

generateAppScript(entryPointUrl, entry, importMap) ==
  <<Part("app-script", <<entryPointUrl, entry>>)>>

\* options: entryPoint, importMap, and styles and errors when given
hasErrorsNever(errors) == FALSE
hasErrors(errors) == Len(errors) > 0

createPreviewHTML(options) ==
  LET styles == IF "styles" \in DOMAIN options THEN options.styles ELSE <<>>
      errors == IF "errors" \in DOMAIN options THEN options.errors ELSE <<>>
      entryPointUrl ==
        IF options.entryPoint \in DOMAIN options.importMap.imports
        THEN options.importMap.imports[options.entryPoint]
        ELSE options.entryPoint
  IN [importMap |-> options.importMap,
      styles |-> styles,
      body |-> (IF hasErrors(errors) THEN generateErrorDisplay(errors) ELSE <<>>)
                 \o <<Part("root", <<>>)>>
                 \o (IF ~hasErrors(errors)
                     THEN generateAppScript(entryPointUrl, options.entryPoint, options.importMap)
                     ELSE <<>>)]

(***************************************************************************)
(* preview-utils: findEntryPoint and getPreviewError over the Map of files  *)
(***************************************************************************)
ENTRY_POINT_CANDIDATES ==
  << <<"/", "A", "p", "p", ".", "j", "s", "x">>, <<"/", "A", "p", "p", ".", "t", "s", "x">>, <<"/", "i", "n", "d", "e", "x", ".", "j", "s", "x">>, <<"/", "i", "n", "d", "e", "x", ".", "t", "s", "x">>, <<"/", "s", "r", "c", "/", "A", "p", "p", ".", "j", "s", "x">>, <<"/", "s", "r", "c", "/", "A", "p", "p", ".", "t", "s", "x">> >>

\* the first element of a list that satisfies Ok(_), none when there is none
FirstOf(list, Ok(_), none) ==
  IF \E i \in 1..Len(list) : Ok(list[i])
  THEN list[CHOOSE i \in 1..Len(list) : Ok(list[i]) /\ \A j \in 1..(i - 1) : ~Ok(list[j])]
  ELSE none

findEntryPointFirstFile(snap, currentEntryPoint) ==
  IF filesHasPath(snap, currentEntryPoint) THEN currentEntryPoint
  ELSE FirstOf([i \in 1..Len(snap) |-> snap[i].path],
               LAMBDA p : EndsWith(p, <<".", "j", "s", "x">>) \/ EndsWith(p, <<".", "t", "s", "x">>),
               currentEntryPoint)
findEntryPoint(snap, currentEntryPoint) ==
  IF filesHasPath(snap, currentEntryPoint) THEN currentEntryPoint
  ELSE IF \E i \in 1..Len(ENTRY_POINT_CANDIDATES) : filesHasPath(snap, ENTRY_POINT_CANDIDATES[i])
       THEN FirstOf(ENTRY_POINT_CANDIDATES, LAMBDA p : filesHasPath(snap, p), currentEntryPoint)
  ELSE FirstOf([i \in 1..Len(snap) |-> snap[i].path],
               LAMBDA p : EndsWith(p, <<".", "j", "s", "x">>) \/ EndsWith(p, <<".", "t", "s", "x">>),
               currentEntryPoint)

NO_FILES == "No files to preview"
NO_ENTRY_POINT == "No React component found. Create an App.jsx or index.jsx file to get started."

getPreviewError(filesCount, entry, snap, firstLoad) ==
  IF filesCount = 0 THEN (IF firstLoad THEN "firstLoad" ELSE NO_FILES)
  ELSE IF entry = <<>> \/ ~filesHasPath(snap, entry) THEN NO_ENTRY_POINT
  ELSE NoError

(***************************************************************************)
(* The build as a function of a snapshot: Init draws the Map of files and   *)
(* the entry point that was active, the actions apply findEntryPoint,       *)
(* createImportMap and createPreviewHTML to them.                           *)
(***************************************************************************)
File(path, content) == [path |-> path, content |-> content]
Import(specifier) == <<ImportFrom, Quote>> \o specifier \o <<Quote>>

BuildFiles ==
  { File(<<"/", "A", "p", "p", ".", "j", "s", "x">>, <<"x">>),
    File(<<"/", "A", "p", "p", ".", "j", "s", "x">>, Import(<<".", "/", "B">>)),
    File(<<"/", "A", "p", "p", ".", "j", "s", "x">>, Import(<<"@", "/", "B">>)),
    File(<<"/", "A", "p", "p", ".", "j", "s", "x">>, Import(<<"/", "B">>)),
    File(<<"/", "A", "p", "p", ".", "j", "s", "x">>, Import(<<"B">>)),
    File(<<"/", "A", "p", "p", ".", "j", "s", "x">>, Import(React)),
    File(<<"/", "A", "p", "p", ".", "j", "s", "x">>, Import(<<".", "/", "o", "n", "a">>)),
    File(<<"/", "A", "p", "p", ".", "j", "s", "x">>, <<Unparsable>>),
    File(<<"/", "A", "p", "p", ".", "j", "s", "x">>, <<ImportBare, Quote>> \o <<".", "/", "s", ".", "c", "s", "s">> \o <<Quote>> \o Import(<<".", "/", "B", ".", "j", "s", "x">>)),
    File(<<"/", "A", "p", "p", ".", "t", "s", "x">>, <<"x">>),
    File(<<"/", "B", ".", "j", "s", "x">>, <<"x">>),
    File(<<"/", "B", ".", "j", "s", "x">>, <<Unparsable>>),
    File(<<"/", "B", ".", "j", "s", "x">>, <<EvalCall>>),
    File(<<"/", "B", ".", "j", "s">>, Import(<<".", "/", "A", "p", "p">>)),
    File(<<"/", "C", ".", "t", "s", "x">>, <<"x">>),
    File(<<"/", "s", ".", "c", "s", "s">>, <<"x">>) }

\* a Map: files in insertion order, no path twice
IsMap(snap) == \A i, j \in 1..Len(snap) : snap[i].path = snap[j].path => i = j
Snapshots == UNION {{snap \in [1..n -> BuildFiles] : IsMap(snap)} : n \in 0..MaxFiles}
EntryPoints == { <<"/", "A", "p", "p", ".", "j", "s", "x">>, <<"/", "B", ".", "j", "s", "x">> }

InitBuild ==
  /\ nodes = <<FileNode("directory", RootPath, RootPath, <<>>)>>
  /\ files = MapSet(<<>>, RootPath, 1)
  /\ root = 1
  /\ normIn = <<>>
  /\ normOut = <<>>
  /\ selectedFile = NoSelection
  /\ refreshTrigger = 0
  /\ snapshot \in Snapshots
  /\ built = NoBuild
  /\ entryPoint \in EntryPoints
  /\ previewHTML = NoDocument
  /\ InitFrame
  /\ InitServer

FindEntryPoint ==
  /\ built = NoBuild
  /\ entryPoint' = findEntryPoint(snapshot, entryPoint)
  /\ UNCHANGED <<vfsVars, normVars, provVars, frameVars, snapshot, built, previewHTML, serverVars>>

Build ==
  /\ built = NoBuild
  /\ built' = <<createImportMap(snapshot)>>
  /\ UNCHANGED <<vfsVars, normVars, provVars, frameVars, snapshot, entryPoint, previewHTML, serverVars>>

\* createPreviewHTML({ entryPoint, importMap, styles, errors }) of what the build returned
PreviewOf(b, entry) ==
  createPreviewHTML([entryPoint |-> entry, importMap |-> [imports |-> b.imports],
                     styles |-> b.styles, errors |-> b.errors])

Render ==
  /\ built # NoBuild
  /\ ~built[1].threw
  /\ previewHTML = NoDocument
  /\ previewHTML' = <<PreviewOf(built[1], entryPoint)>>
  /\ UNCHANGED <<vfsVars, normVars, provVars, frameVars, snapshot, entryPoint, built, serverVars>>

NextBuild ==
  \/ FindEntryPoint
  \/ Build
  \/ Render

SpecBuild == InitBuild /\ [][NextBuild]_vars

(***************************************************************************)
(* PreviewFrame: the component inside a FileSystemProvider.  It renders     *)
(* PreviewEmptyState when error is set and the iframe otherwise; its effect *)
(* runs updatePreview after a render in which one of refreshTrigger,        *)
(* entryPoint, error, isFirstLoad differs from the run before (getAllFiles  *)
(* is the same callback for the life of the provider).  previewHTML is the  *)
(* srcdoc of the mounted iframe, effectDeps the dependencies of the last    *)
(* run.  The Map getAllFiles() returns is taken in key order, the order in  *)
(* which the index of the VirtualFileSystem is kept here.                   *)
(***************************************************************************)
PreviewFiles(st) ==
  [i \in 1..Cardinality(DOMAIN getAllFiles(st)) |->
     File(SortedKeys(DOMAIN getAllFiles(st))[i],
          getAllFiles(st)[SortedKeys(DOMAIN getAllFiles(st))[i]])]

CurrentDeps == <<refreshTrigger, entryPoint, error, isFirstLoad>>

\* what one run of updatePreview asks for: the last setError (none: <<>>), the entry
\* point and isFirstLoad it sets, and the document it assigns to iframe.srcdoc (none: <<>>)
Update(setError, entry, firstLoad, srcdoc) ==
  [setError |-> setError, entryPoint |-> entry, isFirstLoad |-> firstLoad, srcdoc |-> srcdoc]

\* lines 54-73: b what createImportMap(files) gave, cleared the setError(null) of line 32;
\* iframeRef.current is the iframe of the last render, there when err was null
Displayed(b, cleared, found, err) ==
  IF b.threw THEN Update(<<"Code contains potentially dangerous patterns">>, found, FALSE, <<>>)
  ELSE IF err = NoError THEN Update(<<NoError>>, found, FALSE, <<PreviewOf(b, found)>>)
  ELSE Update(cleared, found, FALSE, <<>>)

\* lines 36-51: found what findEntryPoint gave
Checked(snap, cleared, found, err, firstLoad) ==
  IF getPreviewError(Len(snap), found, snap, firstLoad) # NoError
  THEN Update(<<getPreviewError(Len(snap), found, snap, firstLoad)>>, found, firstLoad, <<>>)
  ELSE Displayed(createImportMap(snap), cleared, found, err)

updatePreview(snap, err, entry, firstLoad) ==
  Checked(snap, IF Len(snap) > 0 /\ err # NoError THEN <<NoError>> ELSE <<>>,
          findEntryPoint(snap, entry), err, firstLoad)

(***************************************************************************)
(* The state machine of a PreviewFrame in its provider: the operations of   *)
(* the context change the VirtualFileSystem, the effect follows.            *)
(***************************************************************************)
BJsxInA == <<"/", "a", "/", "B", ".", "j", "s", "x">>
FramePaths == { AppJsx, <<"/", "a">>, BJsxInA }
RenamePaths == FramePaths \cup { <<"/", "a", "/", "b">> }
FrameContents == { <<"x">>, <<Unparsable>>, Import(<<".", "/", "o", "n", "a">>) }

FrameStep(o) ==
  /\ o.changed => refreshTrigger < MaxEpoch
  /\ VfsStep(o.st)
  /\ selectedFile' = o.sel
  /\ refreshTrigger' = IF o.changed THEN refreshTrigger + 1 ELSE refreshTrigger
  /\ UNCHANGED <<normVars, pipeVars, frameVars, serverVars>>

FrameCreateFile ==
  \E p \in FramePaths, c \in FrameContents :
     \E o \in {provCreateFile(Cur, p, c, selectedFile)} : FrameStep(o)
FrameUpdateFile ==
  \E p \in FramePaths, c \in FrameContents :
     \E o \in {provUpdateFile(Cur, p, c, selectedFile)} : FrameStep(o)
FrameDeleteFile ==
  \E p \in FramePaths, lim \in StackDepths :
     \E o \in {provDeleteFile(Cur, p, selectedFile, lim)} : FrameStep(o)
FrameRenameFile ==
  \E p \in FramePaths, q \in RenamePaths, lim \in StackDepths :
     \E o \in {provRenameFile(Cur, p, q, selectedFile, lim)} : FrameStep(o)
FrameReset == \E o \in {provReset(Cur)} : FrameStep(o)

\* the effect: runs when a dependency differs from the last run; the state it sets is
\* rendered before it can run again, and an iframe that is not rendered has no document
UpdatePreview ==
  /\ effectDeps # <<CurrentDeps>>
  /\ \E o \in {updatePreview(PreviewFiles(Cur), error, entryPoint, isFirstLoad)} :
        /\ error' = (IF o.setError = <<>> THEN error ELSE o.setError[1])
        /\ entryPoint' = o.entryPoint
        /\ isFirstLoad' = o.isFirstLoad
        /\ previewHTML' = (IF error' # NoError THEN NoDocument
                           ELSE IF o.srcdoc # <<>> THEN o.srcdoc
                           ELSE previewHTML)
  /\ effectDeps' = <<CurrentDeps>>
  /\ UNCHANGED <<vfsVars, normVars, provVars, snapshot, built, serverVars>>

NextPreview ==
  \/ FrameCreateFile
  \/ FrameUpdateFile
  \/ FrameDeleteFile
  \/ FrameRenameFile
  \/ FrameReset
  \/ UpdatePreview

SpecPreview == Init /\ [][NextPreview]_vars

(***************************************************************************)
(* audit-log.ts: the buffer of audit events.  An event is its number in    *)
(* the order of the logAuditEvent calls and its severity; a running flush  *)
(* is the batch it took from the buffer, the index of its next INSERT and  *)
(* the event whose logAuditEvent call awaits it (0: the timer).            *)
(***************************************************************************)
MAX_BUFFER_SIZE == 100
TimerFlush == 0
Audit == [buffer |-> auditBuffer, flushes |-> flushes, logged |-> logged, returned |-> returned]

\* flushAuditBuffer up to its first await: nothing to do on an empty buffer,
\* else events = auditBuffer.splice(0, auditBuffer.length)
flushAuditBuffer(au, waiter) ==
  IF au.buffer = <<>> THEN [au EXCEPT !.returned = @ \cup ({waiter} \ {TimerFlush})]
  ELSE [au EXCEPT !.buffer = <<>>,
                  !.flushes = @ \cup {[events |-> au.buffer, next |-> 1, waiter |-> waiter]}]

\* logAuditEvent up to its first await: the call of an event that starts no
\* flush returns
logAuditEvent(au, severity) ==
  LET event == [id |-> au.logged + 1, severity |-> severity]
      pushed == [au EXCEPT !.buffer = Append(@, event), !.logged = @ + 1]
  IN IF severity = "critical" \/ Len(pushed.buffer) >= MAX_BUFFER_SIZE
     THEN flushAuditBuffer(pushed, event.id)
     ELSE [pushed EXCEPT !.returned = @ \cup {event.id}]

AuditStep(au) ==
  /\ auditBuffer' = au.buffer
  /\ flushes' = au.flushes
  /\ logged' = au.logged
  /\ returned' = au.returned

(***************************************************************************)
(* rate-limit.ts: rateLimit(config) for the requests of one client, with   *)
(* skipInDevelopment off.  A row is { count, resetTime }; lastRequest is    *)
(* written and never read.  A request is where it stands (pc), the now it  *)
(* read, the row findUnique gave it, the event it logged and its result.   *)
(***************************************************************************)
Row(count, resetTime) == <<[count |-> count, resetTime |-> resetTime]>>
Expired(row, now) == row = NoRow \/ now > row[1].resetTime
Granted(count, resetTime, path) ==
  [success |-> TRUE, remaining |-> Limit - count, resetTime |-> resetTime, path |-> path]
Refused(resetTime, path) ==
  [success |-> FALSE, remaining |-> 0, resetTime |-> resetTime, path |-> path]

\* the catch branch: the in-memory store and the result it gives
fallbackLimit(store, now) ==
  IF Expired(store, now)
  THEN [store |-> Row(1, now + WindowMs), result |-> Granted(1, now + WindowMs, "fallback")]
  ELSE IF store[1].count >= Limit
       THEN [store |-> store, result |-> Refused(store[1].resetTime, "fallback")]
  ELSE [store |-> Row(store[1].count + 1, store[1].resetTime),
        result |-> Granted(store[1].count + 1, store[1].resetTime, "fallback")]

\* a request whose result is known returns it; a refusal awaits
\* logRateLimitExceeded first
Answer(r, result) ==
  IF result.success
  THEN /\ requests' = [requests EXCEPT ![r].pc = "done", ![r].result = <<result>>]
       /\ UNCHANGED auditVars
  ELSE /\ requests' = [requests EXCEPT ![r].pc = "logRateLimitExceeded",
                                       ![r].result = <<result>>,
                                       ![r].event = logged + 1]
       /\ AuditStep(logAuditEvent(Audit, "medium"))
       /\ UNCHANGED <<auditLog, flushTimer>>

\* a call of prisma that rejects: the request is served from the in-memory store
Fallback(r) ==
  \E o \in {fallbackLimit(fallbackRateLimitStore, requests[r].now)} :
     /\ fallbackRateLimitStore' = o.store
     /\ Answer(r, o.result)
     /\ UNCHANGED rateLimitTable

RateLimitStart ==
  \E r \in 1..MaxRequests :
     /\ requests[r].pc = "new"
     /\ IF r = 1 THEN TRUE ELSE requests[r - 1].pc # "new"
     /\ requests' = [requests EXCEPT ![r].pc = "findUnique", ![r].now = clock]
     /\ UNCHANGED <<clientVars, clock, rateLimitTable, fallbackRateLimitStore,
                    signVars, auditVars, startVars>>

\* await prisma.rateLimit.findUnique, and the code up to the next await
RateLimitFindUnique ==
  \E r \in 1..MaxRequests :
     /\ requests[r].pc = "findUnique"
     /\ \/ /\ IF Expired(rateLimitTable, requests[r].now)
              THEN /\ requests' = [requests EXCEPT ![r].pc = "upsert"]
                   /\ UNCHANGED auditVars
              ELSE IF rateLimitTable[1].count >= Limit
                   THEN Answer(r, Refused(rateLimitTable[1].resetTime, "database"))
              ELSE /\ requests' = [requests EXCEPT ![r].pc = "update",
                                                   ![r].existing = rateLimitTable]
                   /\ UNCHANGED auditVars
           /\ UNCHANGED <<rateLimitTable, fallbackRateLimitStore>>
        \/ Fallback(r)
     /\ UNCHANGED <<clientVars, clock, signVars, auditLog, flushTimer, startVars>>

\* await prisma.rateLimit.upsert({ count: 1, resetTime: now + windowMs })
RateLimitUpsert ==
  \E r \in 1..MaxRequests :
     /\ requests[r].pc = "upsert"
     /\ \/ /\ rateLimitTable' = Row(1, requests[r].now + WindowMs)
           /\ Answer(r, Granted(1, requests[r].now + WindowMs, "database"))
           /\ UNCHANGED fallbackRateLimitStore
        \/ Fallback(r)
     /\ UNCHANGED <<clientVars, clock, signVars, auditLog, flushTimer, startVars>>

\* await prisma.rateLimit.update({ count: existingEntry.count + 1 }), which
\* rejects when the row is gone
RateLimitUpdate ==
  \E r \in 1..MaxRequests :
     /\ requests[r].pc = "update"
     /\ \/ /\ rateLimitTable # NoRow
           /\ rateLimitTable' = Row(requests[r].existing[1].count + 1, rateLimitTable[1].resetTime)
           /\ Answer(r, Granted(requests[r].existing[1].count + 1,
                                rateLimitTable[1].resetTime, "database"))
           /\ UNCHANGED fallbackRateLimitStore
        \/ Fallback(r)
     /\ UNCHANGED <<clientVars, clock, signVars, auditLog, flushTimer, startVars>>

\* logRateLimitExceeded has returned: the refusal is returned
RateLimitRefuse ==
  \E r \in 1..MaxRequests :
     /\ requests[r].pc = "logRateLimitExceeded"
     /\ requests[r].event \in returned
     /\ requests' = [requests EXCEPT ![r].pc = "done"]
     /\ UNCHANGED <<clientVars, clock, rateLimitTable, fallbackRateLimitStore,
                    signVars, auditVars, startVars>>

\* the interval: deleteMany({ resetTime: { lt: now } }), then the in-memory store
CleanupDatabase ==
  /\ rateLimitTable # NoRow
  /\ rateLimitTable[1].resetTime < clock
  /\ rateLimitTable' = NoRow
  /\ UNCHANGED <<clientVars, clock, fallbackRateLimitStore, requests,
                 signVars, auditVars, startVars>>
CleanupFallback ==
  /\ fallbackRateLimitStore # NoRow
  /\ clock > fallbackRateLimitStore[1].resetTime
  /\ fallbackRateLimitStore' = NoRow
  /\ UNCHANGED <<clientVars, clock, rateLimitTable, requests,
                 signVars, auditVars, startVars>>

Tick ==
  /\ clock < MaxClock
  /\ clock' = clock + 1
  /\ UNCHANGED <<clientVars, rateVars, signVars, auditVars, startVars>>

NextRateLimit ==
  \/ RateLimitStart
  \/ RateLimitFindUnique
  \/ RateLimitUpsert
  \/ RateLimitUpdate
  \/ RateLimitRefuse
  \/ CleanupDatabase
  \/ CleanupFallback
  \/ Tick

SpecRateLimit == Init /\ [][NextRateLimit]_vars

(***************************************************************************)
(* actions/index.ts: signIn for one email and the Map of failed attempts.  *)
(* The clock of this specification counts minutes.  A sign-in in progress  *)
(* is the await it stands at; signInResult is the result returned last.    *)
(***************************************************************************)
\* 15 * 60 * 1000 ms
cutoff == 15
\* attempts.count >= 5
BlockedFrom == 5
RateLimited == "Too many failed attempts. Please try again in 15 minutes."
InvalidCredentials == "Invalid credentials"

isRateLimited(attempts, now) ==
  IF attempts = NoRow THEN FALSE
  ELSE attempts[1].count >= BlockedFrom /\ now - attempts[1].lastAttempt < cutoff

recordFailedAttempt(existing, now) ==
  <<[count |-> IF existing # NoRow THEN existing[1].count + 1 ELSE 1, lastAttempt |-> now]>>

clearFailedAttempts(attempts) == NoRow

\* recordFailedAttempt(email); return { success: false, error: "Invalid credentials" }
RecordFailure(s) ==
  /\ Len(recorded) < MaxFailures
  /\ failedAttempts' = recordFailedAttempt(failedAttempts, clock)
  /\ recorded' = Append(recorded, clock)
  /\ signIns' = [signIns EXCEPT ![s] = "idle"]
  /\ signInResult' = InvalidCredentials

\* the catch of signIn
SignInError(s) ==
  /\ signIns' = [signIns EXCEPT ![s] = "idle"]
  /\ signInResult' = "An error occurred during sign in"
  /\ UNCHANGED <<failedAttempts, recorded>>

\* signIn up to its first await: validation, then the rate limit
SignIn ==
  \E s \in 1..MaxSignIns, input \in {"valid", "invalid email", "no password"} :
     /\ signIns[s] = "idle"
     /\ IF input = "invalid email"
        THEN signInResult' = "Invalid email format" /\ UNCHANGED signIns
        ELSE IF input = "no password"
             THEN signInResult' = "Password is required" /\ UNCHANGED signIns
        ELSE IF isRateLimited(failedAttempts, clock)
             THEN signInResult' = RateLimited /\ UNCHANGED signIns
        ELSE signIns' = [signIns EXCEPT ![s] = "findUnique"] /\ UNCHANGED signInResult
     /\ UNCHANGED <<clientVars, clock, rateVars, failedAttempts, recorded, auditVars, startVars>>

\* await prisma.user.findUnique({ where: { email } })
SignInFindUnique ==
  \E s \in 1..MaxSignIns, user \in {"found", "null", "rejects"} :
     /\ signIns[s] = "findUnique"
     /\ IF user = "null" THEN RecordFailure(s)
        ELSE IF user = "rejects" THEN SignInError(s)
        ELSE /\ signIns' = [signIns EXCEPT ![s] = "compare"]
             /\ UNCHANGED <<failedAttempts, recorded, signInResult>>
     /\ UNCHANGED <<clientVars, clock, rateVars, auditVars, startVars>>

\* await bcrypt.compare(password, user.password)
SignInCompare ==
  \E s \in 1..MaxSignIns, isValidPassword \in {"true", "false", "rejects"} :
     /\ signIns[s] = "compare"
     /\ IF isValidPassword = "false" THEN RecordFailure(s)
        ELSE IF isValidPassword = "rejects" THEN SignInError(s)
        ELSE /\ failedAttempts' = clearFailedAttempts(failedAttempts)
             /\ signIns' = [signIns EXCEPT ![s] = "createSession"]
             /\ UNCHANGED <<recorded, signInResult>>
     /\ UNCHANGED <<clientVars, clock, rateVars, auditVars, startVars>>

\* await createSession(user.id, user.email); return { success: true }
SignInCreateSession ==
  \E s \in 1..MaxSignIns, created \in BOOLEAN :
     /\ signIns[s] = "createSession"
     /\ IF created
        THEN /\ signIns' = [signIns EXCEPT ![s] = "idle"]
             /\ signInResult' = "success"
             /\ UNCHANGED <<failedAttempts, recorded>>
        ELSE SignInError(s)
     /\ UNCHANGED <<clientVars, clock, rateVars, auditVars, startVars>>

\* the interval: entries whose last attempt is older than the cutoff are deleted
CleanupFailedAttempts ==
  /\ failedAttempts # NoRow
  /\ clock - failedAttempts[1].lastAttempt > cutoff
  /\ failedAttempts' = NoRow
  /\ UNCHANGED <<clientVars, clock, rateVars, signIns, recorded, signInResult,
                 auditVars, startVars>>

TickMinute ==
  /\ clock + TickMinutes <= MaxMinutes
  /\ clock' = clock + TickMinutes
  /\ UNCHANGED <<clientVars, rateVars, signVars, auditVars, startVars>>

NextSignIn ==
  \/ SignIn
  \/ SignInFindUnique
  \/ SignInCompare
  \/ SignInCreateSession
  \/ CleanupFailedAttempts
  \/ TickMinute

SpecSignIn == Init /\ [][NextSignIn]_vars

(***************************************************************************)
(* audit-log.ts and startup.ts: events are logged, the timer and critical  *)
(* events start flushes, each INSERT of a flush is a step that succeeds or *)
(* rejects, and initializeApplication is called by callers that overlap.   *)
(***************************************************************************)
Severities == {"low", "critical"}

LogAuditEvent ==
  \E severity \in Severities :
     /\ logged < MaxEvents
     /\ AuditStep(logAuditEvent(Audit, severity))
     /\ UNCHANGED <<clientVars, clock, rateVars, signVars, auditLog, flushTimer, startVars>>

\* the timer callback: flushTimer = null; with an empty buffer the timer is
\* scheduled again at once, else after the flush
FlushTimerFires ==
  /\ flushTimer
  /\ auditBuffer # <<>>
  /\ flushTimer' = FALSE
  /\ AuditStep(flushAuditBuffer(Audit, TimerFlush))
  /\ UNCHANGED <<clientVars, clock, rateVars, signVars, auditLog, startVars>>

\* flushAuditBuffer returns: the logAuditEvent call that awaited it returns,
\* the timer callback schedules the next flush
FlushReturns(f) ==
  /\ flushes' = flushes \ {f}
  /\ returned' = returned \cup ({f.waiter} \ {TimerFlush})
  /\ flushTimer' = IF f.waiter = TimerFlush THEN TRUE ELSE flushTimer
  /\ UNCHANGED logged

\* await prisma.$executeRaw`INSERT ...` of the next event of a flush
FlushInsert ==
  \E f \in flushes :
     /\ Len(auditLog) < MaxInserts
     /\ auditLog' = Append(auditLog, f.events[f.next])
     /\ IF f.next = Len(f.events)
        THEN FlushReturns(f)
        ELSE /\ flushes' = (flushes \ {f}) \cup {[f EXCEPT !.next = @ + 1]}
             /\ UNCHANGED <<flushTimer, logged, returned>>
     /\ UNCHANGED <<clientVars, clock, rateVars, signVars, auditBuffer, startVars>>

\* a statement of a flush rejects: auditBuffer.unshift(...events)
FlushFails ==
  \E f \in flushes :
     /\ auditBuffer' = f.events \o auditBuffer
     /\ FlushReturns(f)
     /\ UNCHANGED <<clientVars, clock, rateVars, signVars, auditLog, startVars>>

\* initializeApplication up to await logSystemStartup(), with a valid environment
InitializeApplication ==
  \E c \in 1..MaxCalls :
     /\ callers[c] = "idle"
     /\ IF initialized
        THEN /\ callers' = [callers EXCEPT ![c] = "returned"]
             /\ UNCHANGED <<bodyRuns, auditVars>>
        ELSE /\ logged < MaxEvents
             /\ bodyRuns' = bodyRuns + 1
             /\ callers' = [callers EXCEPT ![c] = "logSystemStartup"]
             /\ AuditStep(logAuditEvent(Audit, "low"))
             /\ UNCHANGED <<auditLog, flushTimer>>
     /\ UNCHANGED <<clientVars, clock, rateVars, signVars, initialized>>

\* logSystemStartup has returned: initialized = true
InitializeReturns ==
  \E c \in 1..MaxCalls :
     /\ callers[c] = "logSystemStartup"
     /\ initialized' = TRUE
     /\ callers' = [callers EXCEPT ![c] = "returned"]
     /\ UNCHANGED <<clientVars, clock, rateVars, signVars, auditVars, bodyRuns>>

NextAudit ==
  \/ LogAuditEvent
  \/ FlushTimerFires
  \/ FlushInsert
  \/ FlushFails
  \/ InitializeApplication
  \/ InitializeReturns

SpecAudit == Init /\ [][NextAudit]_vars

(***************************************************************************)
(* Shapes of a state                                                       *)
(***************************************************************************)
\* the ids reachable from the ids of S through children maps, S included
RECURSIVE Closure(_, _)
Closure(n, S) ==
  LET T == S \cup UNION {ChildIds(n[i].children) : i \in S}
  IN IF T = S THEN S ELSE Closure(n, T)

TreeIds(st) == Closure(st.nodes, {st.root})
Below(st, id) == Closure(st.nodes, ChildIds(st.nodes[id].children))
Parents(st, id) ==
  {pr \in (DOMAIN st.nodes) \X (1..Cardinality(DOMAIN st.nodes)) :
     /\ pr[2] <= Len(st.nodes[pr[1]].children)
     /\ st.nodes[pr[1]].children[pr[2]].id = id}

JoinPath(parentPath, name) ==
  IF parentPath = RootPath THEN <<Slash>> \o name ELSE parentPath \o <<Slash>> \o name

IsPrefix(s, t) == Len(s) <= Len(t) /\ SubSeq(t, 1, Len(s)) = s

\* leading "/", no trailing "/" except for the root, no repeated separators
Canonical(p) ==
  /\ Len(p) > 0 /\ p[1] = Slash
  /\ p = RootPath \/ Last(p) # Slash
  /\ \A i \in 1..(Len(p) - 1) : ~(p[i] = Slash /\ p[i + 1] = Slash)

(***************************************************************************)
(* C1: after any sequence of calls the index and the tree agree: the paths *)
(* of the index are the paths of the nodes reachable from the root, every  *)
(* indexed node is stored under its own path, and every indexed node but   *)
(* the root is a child, under its own name, of the directory whose path    *)
(* joined with that name is its path.                                      *)
(***************************************************************************)
C1_IndexTreeAgree ==
  /\ DOMAIN files = {nodes[i].path : i \in TreeIds(Cur)}
  /\ {files[k] : k \in DOMAIN files} = TreeIds(Cur)
  /\ \A k \in DOMAIN files : nodes[files[k]].path = k
  /\ \A k \in DOMAIN files \ {RootPath} :
        \E pr \in Parents(Cur, files[k]) :
           /\ pr[1] \in TreeIds(Cur)
           /\ nodes[pr[1]].type = "directory"
           /\ nodes[pr[1]].children[pr[2]].name = nodes[files[k]].name
           /\ k = JoinPath(nodes[pr[1]].path, nodes[files[k]].name)

(***************************************************************************)
(* C2: after any sequence of calls the children relation is a tree: no     *)
(* node is its own ancestor, no node is held by two children entries, and  *)
(* no two nodes have the same path.                                        *)
(***************************************************************************)
C2_IsTree ==
  /\ \A i \in DOMAIN nodes : i \notin Below(Cur, i)
  /\ \A i \in DOMAIN nodes : Cardinality(Parents(Cur, i)) <= 1
  /\ \A i, j \in DOMAIN nodes : i # j => nodes[i].path # nodes[j].path

(***************************************************************************)
(* C3: normalizePath is idempotent: normalizing a normalized path changes  *)
(* nothing, for every input string.                                        *)
(***************************************************************************)
C3_NormalizeIdempotent == Len(normOut) = 2 => normOut[2] = normOut[1]

(***************************************************************************)
(* C4: the path of every node the VFS holds, and every key of the index,   *)
(* is canonical: leading "/", no trailing "/" unless it is the root, no    *)
(* repeated separators.                                                    *)
(***************************************************************************)
C4_PathsCanonical ==
  /\ \A i \in DOMAIN nodes : Canonical(nodes[i].path)
  /\ \A k \in DOMAIN files : Canonical(k)

(***************************************************************************)
(* Probes: the calls examined in every reachable state                     *)
(***************************************************************************)
ValidProbes == {p \in ProbePaths : validatePath(p)}
RootProbes == {p \in ValidProbes : normalizePath(p) = RootPath}

\* the state has one root object: a directory at "/", held by the index
RootOK(st) ==
  /\ st.root \in DOMAIN st.nodes
  /\ st.nodes[st.root].type = "directory"
  /\ st.nodes[st.root].path = RootPath
  /\ RootPath \in DOMAIN st.files
  /\ st.files[RootPath] = st.root
  /\ \A i \in DOMAIN st.nodes : st.nodes[i].path = RootPath => i = st.root

\* no directory path leading to p is held by a node that is not a directory
NoFileAncestor(st, p) ==
  LET directories == createDirectoryPath(p)
  IN \A i \in DOMAIN directories :
        directories[i] \in DOMAIN st.files =>
           st.nodes[st.files[directories[i]]].type = "directory"

\* the paths at and below the node that the index holds at path d
SubtreePaths(st, d) ==
  LET id == st.files[d]
  IN {st.nodes[i].path : i \in {id} \cup Below(st, id)}
       \cup {k \in DOMAIN st.files : k = d \/ IsPrefix(d \o <<Slash>>, k)}

(***************************************************************************)
(* C5: in every reachable state there is exactly one root node, a          *)
(* directory at "/" held by the index; deleteFile("/") returns false and   *)
(* changes nothing, and rename with "/" as either argument returns false.  *)
(***************************************************************************)
C5_RootKept ==
  /\ RootOK(Cur)
  /\ \A p \in RootProbes, lim \in StackDepths :
        /\ deleteFile(Cur, p, lim) = Res(Cur, "false")
        /\ \A q \in ValidProbes :
              /\ rename(Cur, p, q, lim) = Res(Cur, "false")
              /\ rename(Cur, q, p, lim) = Res(Cur, "false")

\* a state with nodes below the root in which "/" is the only reason for the
\* calls to fail, and from which reset and a load of data that holds a file
\* at "/" leave the root a directory
C5_Witness ==
  /\ Cardinality(DOMAIN files) >= 3
  /\ exists(Cur, <<"/", "a">>) /\ ~exists(Cur, <<"/", "b">>)
  /\ deleteFile(Cur, RootPath, StackDepth) = Res(Cur, "false")
  /\ rename(Cur, RootPath, <<"/", "b">>, StackDepth).ret = "false"
  /\ rename(Cur, <<"/", "a">>, <<"/", "/">>, StackDepth).ret = "false"
  /\ RootOK(Collect(reset(Cur)))
  /\ RootOK(Collect(deserializeFromNodes(Cur,
        MapSet(<<>>, RootPath, [type |-> "file", content |-> <<"x">>])).st))

(***************************************************************************)
(* C6: after deleteFile(d) returned true for a directory d, neither d nor  *)
(* any path that was below it is reported by exists() or held by           *)
(* getAllFiles(), by the index or by a node reachable from the root.       *)
(***************************************************************************)
C6_RecursiveDelete ==
  \A d \in ValidProbes, lim \in StackDepths :
     LET nd == normalizePath(d)
         r == deleteFile(Cur, d, lim)
     IN (r.ret = "true" /\ nodes[files[nd]].type = "directory") =>
           /\ ~exists(r.st, d)
           /\ nd \notin DOMAIN r.st.files
           /\ nd \notin {r.st.nodes[i].path : i \in TreeIds(r.st)}
           /\ \A p \in SubtreePaths(Cur, nd) \ {nd} :
                 /\ ~exists(r.st, p)
                 /\ p \notin DOMAIN getAllFiles(r.st)
                 /\ p \notin DOMAIN r.st.files
                 /\ p \notin {r.st.nodes[i].path : i \in TreeIds(r.st)}

(***************************************************************************)
(* C7: after rename(oldPath, newPath) returned true for a directory, every *)
(* node that was at oldPath + s is found, with its kind and content, at    *)
(* newPath + s, and nothing exists at oldPath + s any more.                *)
(***************************************************************************)
C7_RenamePropagates ==
  \A o \in ValidProbes, n \in ValidProbes, lim \in StackDepths :
     LET no == normalizePath(o)
         r == rename(Cur, o, n, lim)
     IN (r.ret = "true" /\ nodes[files[no]].type = "directory") =>
           \A k \in DOMAIN files :
              (k = no \/ IsPrefix(no \o <<Slash>>, k)) =>
                 LET s == SubSeq(k, Len(no) + 1, Len(k))
                     t == getNode(r.st, n \o s)
                 IN /\ t # NoNode
                    /\ r.st.nodes[t].type = nodes[files[k]].type
                    /\ r.st.nodes[t].content = nodes[files[k]].content
                    /\ ~exists(r.st, o \o s)

(***************************************************************************)
(* C8: rename returns false when the source does not exist, the            *)
(* destination exists or either argument normalizes to the root, and true  *)
(* in every other case in which no file stands on the way to the           *)
(* destination.                                                            *)
(***************************************************************************)
C8_RenameResult ==
  \A o \in ValidProbes, n \in ValidProbes, lim \in StackDepths :
     LET no == normalizePath(o)
         nn == normalizePath(n)
         r == rename(Cur, o, n, lim)
         refused == \/ ~exists(Cur, o) \/ exists(Cur, n)
                    \/ no = RootPath \/ nn = RootPath
     IN /\ refused => r.ret = "false"
        /\ (~refused /\ NoFileAncestor(Cur, nn)) => r.ret = "true"

(***************************************************************************)
(* C9 as stated: in a state in which p does not exist, createFile(p, c)    *)
(* followed by readFile(p) returns c.                                      *)
(***************************************************************************)
C9_CreateThenRead_AsStated ==
  \A p \in ValidProbes, c \in Contents :
     ~exists(Cur, p) =>
        readFile(createFile(Cur, p, c).st, p) = [kind |-> "content", val |-> c]

(***************************************************************************)
(* C9 amended: in a state in which p does not exist and no ancestor path   *)
(* of p is held by a file, createFile(p, c) followed by readFile(p)        *)
(* returns c.                                                              *)
(***************************************************************************)
C9_CreateThenRead ==
  \A p \in ValidProbes, c \in Contents :
     (~exists(Cur, p) /\ NoFileAncestor(Cur, normalizePath(p))) =>
        /\ createFile(Cur, p, c).ret = "node"
        /\ readFile(createFile(Cur, p, c).st, p) = [kind |-> "content", val |-> c]

\* a state with a file in it, in which a deep path with a missing ancestor
\* is created with non-empty content and read back
C9_Witness ==
  LET p == <<"/", "b", "/", "a">>
      c == <<"x">>
  IN /\ \E k \in DOMAIN files : nodes[files[k]].type = "file"
     /\ ~exists(Cur, p) /\ ~exists(Cur, <<"/", "b">>)
     /\ createFile(Cur, p, c).ret = "node"
     /\ readFile(createFile(Cur, p, c).st, p) = [kind |-> "content", val |-> c]

(***************************************************************************)
(* C10: if p exists, as a file or as a directory, createFile(p, c2) and    *)
(* createDirectory(p) return null and leave the state as it was.           *)
(***************************************************************************)
C10_NoDuplicateCreate ==
  \A p \in ProbePaths, c \in Contents :
     exists(Cur, p) =>
        /\ createFile(Cur, p, c) = Res(Cur, "null")
        /\ createDirectory(Cur, p) = Res(Cur, "null")

\* a state with a file holding "x" and a directory with a child, on both of
\* which a second create is refused
C10_Witness ==
  \E p \in ProbePaths, q \in ProbePaths :
     /\ exists(Cur, p) /\ exists(Cur, q)
     /\ nodes[files[normalizePath(p)]].type = "file"
     /\ nodes[files[normalizePath(p)]].content = <<"x">>
     /\ nodes[files[normalizePath(q)]].type = "directory"
     /\ Len(nodes[files[normalizePath(q)]].children) > 0
     /\ q # RootPath
     /\ createFile(Cur, p, <<>>) = Res(Cur, "null")
     /\ createDirectory(Cur, p) = Res(Cur, "null")
     /\ createFile(Cur, q, <<"x">>) = Res(Cur, "null")
     /\ createDirectory(Cur, q) = Res(Cur, "null")

(***************************************************************************)
(* C11: whenever createFile(p) returns a node or rename(old, p) returns     *)
(* true, every proper ancestor path of p exists afterwards as a directory:  *)
(* the ancestors that existed are the nodes they were, the missing ones     *)
(* have been created.                                                      *)
(***************************************************************************)
\* the proper ancestor paths of p: "/" and the paths made of the first
\* segments of p, the last segment left out
AncestorPaths(p) ==
  LET parts == FilterBoolean(Split(p))
  IN IF parts = <<>> THEN {}
     ELSE {RootPath} \cup {<<Slash>> \o Join(SubSeq(parts, 1, i)) : i \in 1..(Len(parts) - 1)}

AncestorsAreDirectories(before, after, p) ==
  \A a \in AncestorPaths(p) :
     /\ exists(after, a)
     /\ after.nodes[getNode(after, a)].type = "directory"
     /\ exists(before, a) => getNode(after, a) = getNode(before, a)

Shape(st) ==
  [p \in DOMAIN st.files |->
     LET node == st.nodes[st.files[p]]
     IN [type |-> node.type,
         content |-> IF node.type = "file" THEN node.content ELSE <<>>]]

C12_RoundTripNodes ==
  LET r == deserializeFromNodes(Cur, serialize(Cur))
  IN r.ret = "void" /\ Shape(r.st) = Shape(Cur)

(***************************************************************************)
(* C13: deserialize(serialize(tree)) yields a tree with the same set of    *)
(* paths, kinds and file contents, whether deserialize is handed each      *)
(* descriptor as it is or the content the descriptor holds.  Stated for    *)
(* the trees whose paths are canonical and whose index agrees with the     *)
(* tree.                                                                   *)
(***************************************************************************)
C13_RoundTrip ==
  LET data == serialize(Cur)
      asIs == deserialize(Cur, [p \in DOMAIN data |-> DescriptorAsContent(data[p])])
      byContent == deserialize(Cur, [p \in DOMAIN data |-> DescriptorContent(data[p])])
  IN (C1_IndexTreeAgree /\ C2_IsTree /\ C4_PathsCanonical) =>
        \/ asIs.ret = "void" /\ Shape(asIs.st) = Shape(Cur)
        \/ byContent.ret = "void" /\ Shape(byContent.st) = Shape(Cur)

(***************************************************************************)
(* C14: for every state and every well-formed path and content within the  *)
(* size limit, a missing target, a path conflict, a rename onto an         *)
(* existing path and a file-versus-directory mismatch are reported by the  *)
(* return value (null, false or an "Error:" string), never by throwing.    *)
(***************************************************************************)
\* the kind of the node the index holds at path p: "none" when it holds none
KindAt(st, p) ==
  IF ~exists(st, p) THEN "none" ELSE st.nodes[getNode(st, p)].type

\* a file stands where a directory is needed on the way to p
FileOnTheWay(st, p) == ~NoFileAncestor(st, normalizePath(p))

C14_CoreFailuresReturned ==
  \A p \in ValidProbes, c \in Contents, lim \in StackDepths :
     /\ (exists(Cur, p) \/ FileOnTheWay(Cur, p)) =>
           /\ createFile(Cur, p, c).ret = "null"
           /\ createDirectory(Cur, p).ret = "null"
     /\ ~exists(Cur, getParentPath(normalizePath(p))) => createDirectory(Cur, p).ret = "null"
     /\ KindAt(Cur, p) # "file" =>
           /\ readFile(Cur, p).kind = "null"
           /\ updateFile(Cur, p, c).ret = "false"
     /\ KindAt(Cur, p) = "none" => deleteFile(Cur, p, lim).ret = "false"
     /\ KindAt(Cur, p) # "directory" => listDirectory(Cur, p) = NoNode
     /\ \A q \in ValidProbes :
           (KindAt(Cur, p) = "none" \/ exists(Cur, q)
              \/ (FileOnTheWay(Cur, q) /\ KindAt(Cur, p) # "none")) =>
              rename(Cur, p, q, lim).ret = "false"

C14_EditorFailuresReturned ==
  \A p \in ValidProbes, c \in Contents :
     /\ (exists(Cur, p) \/ FileOnTheWay(Cur, p)) =>
           StartsWithError(createFileWithParents(Cur, p, c).ret)
     /\ KindAt(Cur, p) # "file" =>
           /\ StartsWithError(replaceInFile(Cur, p, <<"x">>, c).ret)
           /\ StartsWithError(insertInFile(Cur, p, 0, c).ret)

C14_FailuresReturned == C14_CoreFailuresReturned /\ C14_EditorFailuresReturned

(***************************************************************************)
(* C15 as stated: every operation that takes a path raises when the path   *)
(* is empty, contains NUL or is longer than the maximum, and leaves the    *)
(* state unchanged; exists, getNode and listDirectory included.            *)
(***************************************************************************)
MutatorsRaise(p) ==
  \A c \in Contents, lim \in StackDepths, q \in ProbePaths \cup InvalidProbes :
     /\ createFile(Cur, p, c) = Res(Cur, "throw")
     /\ createDirectory(Cur, p) = Res(Cur, "throw")
     /\ readFile(Cur, p).kind = "throw"
     /\ updateFile(Cur, p, c) = Res(Cur, "throw")
     /\ deleteFile(Cur, p, lim) = Res(Cur, "throw")
     /\ rename(Cur, p, q, lim) = Res(Cur, "throw")
     /\ rename(Cur, q, p, lim) = Res(Cur, "throw")

EditProbes == EditPaths \cup { <<"/", "b", "/", "a">>, RootPath }

C16_ContentBounded ==
  /\ \A i \in DOMAIN nodes : StrLength(nodes[i].content) <= MAX_FILE_SIZE
  /\ \A p \in EditProbes :
        /\ createFile(Cur, p, OverLimit) = Res(Cur, "throw")
        /\ updateFile(Cur, p, OverLimit) = Res(Cur, "throw")

\* the file "/a" holds content of exactly the maximum size; one more
\* character is refused where the same call with the content at the limit
\* creates "/b" and "/b/a", or replaces the content of "/a"
C16_Witness ==
  LET p == <<"/", "b", "/", "a">>
  IN /\ EditPath \in DOMAIN files
     /\ nodes[files[EditPath]].content = AtLimit
     /\ StrLength(AtLimit) = MAX_FILE_SIZE /\ StrLength(OverLimit) = MAX_FILE_SIZE + 1
     /\ createFile(Cur, p, AtLimit).ret = "node"
     /\ createFile(Cur, p, OverLimit) = Res(Cur, "throw")
     /\ updateFile(Cur, EditPath, <<"x">>).ret = "true"
     /\ updateFile(Cur, EditPath, OverLimit) = Res(Cur, "throw")

(***************************************************************************)
(* C17 as stated: replaceInFile returns an "Error:" string and leaves the  *)
(* file unchanged when oldStr is empty or does not occur in the file;      *)
(* otherwise it replaces every non-overlapping occurrence of oldStr by     *)
(* newStr and reports the number of occurrences replaced.                  *)
(***************************************************************************)
\* s read left to right, every occurrence of o that starts where no earlier
\* one is still running replaced by n: the text it gives and the number of
\* replacements made
RECURSIVE ReplaceScan(_, _, _)
ReplaceScan(s, o, n) ==
  IF Len(s) < Len(o) THEN [out |-> s, count |-> 0]
  ELSE IF SubSeq(s, 1, Len(o)) = o
       THEN LET r == ReplaceScan(SubSeq(s, Len(o) + 1, Len(s)), o, n)
            IN [out |-> n \o r.out, count |-> r.count + 1]
  ELSE LET r == ReplaceScan(Tail(s), o, n)
       IN [out |-> <<s[1]>> \o r.out, count |-> r.count]

\* the files of the index and what each holds
FilesOf(st) == getAllFiles(st)

\* the call r on the file at p replaced its content by c and touched nothing else
OnlyContentChanged(r, p, c) ==
  /\ DOMAIN r.st.files = DOMAIN files
  /\ FilesOf(r.st) = [FilesOf(Cur) EXCEPT ![normalizePath(p)] = c]
  /\ Shape(r.st) = [Shape(Cur) EXCEPT ![normalizePath(p)].content = c]

ReplaceAnswers(withinLimitOnly) ==
  \A p \in EditProbes, o \in OldStrs, n \in NewStrs :
     KindAt(Cur, p) = "file" =>
        LET content == nodes[files[normalizePath(p)]].content
            want == ReplaceScan(content, o, n)
            r == replaceInFile(Cur, p, o, n)
        IN IF o = <<>> \/ want.count = 0
           THEN StartsWithError(r.ret) /\ r.st = Cur
           ELSE IF withinLimitOnly /\ StrLength(want.out) > MAX_FILE_SIZE
                THEN r.st = Cur
           ELSE /\ r.ret = Status("Replaced", want.count)
                /\ OnlyContentChanged(r, p, want.out)

C17_Replace_AsStated == ReplaceAnswers(FALSE)

(***************************************************************************)
(* C17 amended: as stated, for the replacements whose result is within the *)
(* maximum file size; a replacement whose result would exceed it leaves    *)
(* the file unchanged.                                                     *)
(***************************************************************************)
C17_Replace == ReplaceAnswers(TRUE)

\* "/a" holds "xxx": "xx" occurs twice but is replaced once, a string that
\* does not occur and the empty string are refused
C17_Witness ==
  /\ KindAt(Cur, EditPath) = "file"
  /\ nodes[files[EditPath]].content = <<"x", "x", "x">>
  /\ replaceInFile(Cur, EditPath, <<"x", "x">>, <<"y", "y">>).ret = Status("Replaced", 1)
  /\ FilesOf(replaceInFile(Cur, EditPath, <<"x", "x">>, <<"y", "y">>).st)[EditPath]
        = <<"y", "y", "x">>
  /\ StartsWithError(replaceInFile(Cur, EditPath, <<"y">>, <<"x">>).ret)
  /\ StartsWithError(replaceInFile(Cur, EditPath, <<>>, <<"x">>).ret)

(***************************************************************************)
(* C18 as stated: insertInFile returns an "Error:" string and leaves the   *)
(* file unchanged when n is negative or greater than the file's number of  *)
(* lines; otherwise the text stands at line index n of the file and the    *)
(* lines the file had are all kept, in their order, around it.             *)
(***************************************************************************)
\* the lines of a text, read character by character: a line ends at each
\* line break, and the text after the last break is a line too (the empty
\* text is one empty line)
RECURSIVE LinesOf(_, _)
LinesOf(s, line) ==
  IF s = <<>> THEN <<line>>
  ELSE IF s[1] = NL THEN <<line>> \o LinesOf(Tail(s), <<>>)
  ELSE LinesOf(Tail(s), Append(line, s[1]))

\* the text of a sequence of lines
RECURSIVE TextOf(_)
TextOf(lines) ==
  IF Len(lines) = 1 THEN lines[1] ELSE lines[1] \o <<NL>> \o TextOf(Tail(lines))

InsertAnswers(withinLimitOnly) ==
  \A p \in EditProbes, l \in LineArgs, t \in NewStrs :
     KindAt(Cur, p) = "file" =>
        LET content == nodes[files[normalizePath(p)]].content
            old == LinesOf(content, <<>>)
            want == SubSeq(old, 1, l) \o LinesOf(t, <<>>) \o SubSeq(old, l + 1, Len(old))
            r == insertInFile(Cur, p, l, t)
        IN IF l < 0 \/ l > Len(old)
           THEN StartsWithError(r.ret) /\ r.st = Cur
           ELSE IF withinLimitOnly /\ StrLength(TextOf(want)) > MAX_FILE_SIZE
                THEN r.st = Cur
           ELSE /\ r.ret = Status("Text inserted", l)
                /\ FilesOf(r.st)[normalizePath(p)] # content
                /\ LinesOf(FilesOf(r.st)[normalizePath(p)], <<>>) = want
                /\ OnlyContentChanged(r, p, FilesOf(r.st)[normalizePath(p)])

C18_Insert_AsStated == InsertAnswers(FALSE)

(***************************************************************************)
(* C18 amended: as stated, for the insertions whose result is within the   *)
(* maximum file size; an insertion whose result would exceed it leaves the *)
(* file unchanged.                                                         *)
(***************************************************************************)
C18_Insert == InsertAnswers(TRUE)

\* "/a" holds the two lines "x" and "y": a text is put before, between and
\* after them, and line 3 and line -1 are refused
C18_Witness ==
  LET t == <<"y", "y">>
      at(l) == FilesOf(insertInFile(Cur, EditPath, l, t).st)[EditPath]
  IN /\ KindAt(Cur, EditPath) = "file"
     /\ nodes[files[EditPath]].content = <<"x", NL, "y">>
     /\ at(0) = <<"y", "y", NL, "x", NL, "y">>
     /\ at(1) = <<"x", NL, "y", "y", NL, "y">>
     /\ at(2) = <<"x", NL, "y", NL, "y", "y">>
     /\ StartsWithError(insertInFile(Cur, EditPath, 3, t).ret)
     /\ StartsWithError(insertInFile(Cur, EditPath, 0 - 1, t).ret)

(***************************************************************************)
(* C19: createFileWithParents, replaceInFile and insertInFile return a     *)
(* status string for every call, whatever the path, the content and the    *)
(* state, and never raise.                                                 *)
(***************************************************************************)
C19_EditorsReturnStatus ==
  \A p \in ProbePaths \cup InvalidProbes, c \in Contents \cup {OverLimit} :
     /\ createFileWithParents(Cur, p, c).ret # Raised
     /\ replaceInFile(Cur, p, <<"x">>, c).ret # Raised
     /\ \A l \in LineArgs : insertInFile(Cur, p, l, c).ret # Raised

(***************************************************************************)
(* C20: every step of the provider's operations and of handleToolCall that *)
(* changes the VirtualFileSystem increments the change epoch, and the      *)
(* epoch never decreases.                                                  *)
(***************************************************************************)
C20_EpochCounts ==
  [][/\ vfsVars' # vfsVars => refreshTrigger' = refreshTrigger + 1
     /\ refreshTrigger' >= refreshTrigger]_vars

(***************************************************************************)
(* C21: a rendered preview document has the error report and no bootstrap  *)
(* script when the build's error list is not empty, and the bootstrap       *)
(* script and no error report when it is empty.                             *)
(***************************************************************************)
HasPart(doc, part) == \E i \in 1..Len(doc.body) : doc.body[i].part = part

C21_ErrorPrecedence ==
  previewHTML # NoDocument =>
     /\ HasPart(previewHTML[1], "syntax-errors") <=> Len(built[1].errors) > 0
     /\ HasPart(previewHTML[1], "app-script") <=> Len(built[1].errors) = 0
     /\ HasPart(previewHTML[1], "syntax-errors") # HasPart(previewHTML[1], "app-script")

\* a document was rendered for a build that collected an error
C21_Witness ==
  /\ previewHTML # NoDocument
  /\ Len(built[1].errors) > 0
  /\ HasPart(previewHTML[1], "syntax-errors")


(***************************************************************************)
(* C22: in a build over any snapshot, a source file whose transform or     *)
(* whose module materialization fails adds exactly one error entry for its *)
(* path, every other source file is transformed and registered in the      *)
(* resolution table, and the build does not throw because of a failing     *)
(* file: when it throws, it is on the placeholder of a specifier that a    *)
(* successfully transformed file imports.                                   *)
(***************************************************************************)
SourceFiles(snap) == {i \in 1..Len(snap) : isJavaScriptFile(snap[i].path)}
Fails(snap, i) ==
  \/ transformJSX(snap[i].content, snap[i].path, Paths(snap)).error
  \/ Dangerous(transformJSX(snap[i].content, snap[i].path, Paths(snap)).code)
ErrorsFor(b, path) == {k \in 1..Len(b.errors) : b.errors[k].path = path}
LocalImports(snap, i) ==
  {imp \in {transformJSX(snap[i].content, snap[i].path, Paths(snap)).missingImports[k] :
               k \in 1..Len(transformJSX(snap[i].content, snap[i].path, Paths(snap)).missingImports)} :
     ~isPackage(imp)}
C22_FailureIsolated ==
  built # NoBuild =>
     /\ \A i \in SourceFiles(snapshot) :
           /\ Fails(snapshot, i) => Cardinality(ErrorsFor(built[1], snapshot[i].path)) = 1
           /\ ~Fails(snapshot, i) =>
                 /\ ErrorsFor(built[1], snapshot[i].path) = {}
                 /\ snapshot[i].path \in DOMAIN built[1].transformedFiles
                 /\ snapshot[i].path \in DOMAIN built[1].imports
                 /\ built[1].imports[snapshot[i].path] = built[1].transformedFiles[snapshot[i].path]
     /\ Len(built[1].errors) = Cardinality({i \in SourceFiles(snapshot) : Fails(snapshot, i)})
     /\ built[1].threw =>
           \E i \in SourceFiles(snapshot) :
              /\ ~Fails(snapshot, i)
              /\ \E imp \in LocalImports(snapshot, i) :
                    Dangerous(createPlaceholderModule(ComponentName(imp)))
\* a build where the first file fails and the file after it is registered
C22_Witness ==
  /\ built # NoBuild
  /\ Len(snapshot) = 2
  /\ Fails(snapshot, 1)
  /\ ~Fails(snapshot, 2)
  /\ isJavaScriptFile(snapshot[2].path)
  /\ Len(built[1].errors) = 1
  /\ snapshot[2].path \in DOMAIN built[1].imports


(***************************************************************************)
(* C23: a local specifier that a successfully transformed file imports and *)
(* that denotes an existing source file of the snapshot (relative to the   *)
(* importing file, absolute or "@/"-aliased, with or without extension)    *)
(* has, after the build, the real file's module location as its table     *)
(* entry, and no placeholder is synthesized for it.                         *)
(***************************************************************************)
\* the absolute path a local specifier stands for, seen from the file that imports it
ResolvedFrom(from, imp) ==
  IF StartsWith(imp, <<"@", "/">>) THEN ReplaceFirst(imp, <<"@", "/">>, <<"/">>)
  ELSE IF StartsWith(imp, <<Dot>>) THEN resolveRelativePath(DirOf(from), imp)
  ELSE imp
Denotes(from, imp, path) ==
  ResolvedFrom(from, imp) \in {path, WithoutExtension(path)}
\* the transformed files a specifier imported by file i denotes
Denoted(snap, i, imp) ==
  {j \in SourceFiles(snap) : ~Fails(snap, j) /\ Denotes(snap[i].path, imp, snap[j].path)}
\* the blobs that hold placeholder modules: those that are no transformed file
IsPlaceholder(b, url) ==
  /\ url.kind = "blob"
  /\ \A p \in DOMAIN b.transformedFiles : b.transformedFiles[p] # url
C23_RealFileWins ==
  (built # NoBuild /\ ~built[1].threw) =>
     \A i \in SourceFiles(snapshot) :
        ~Fails(snapshot, i) =>
           \A imp \in LocalImports(snapshot, i) :
              Denoted(snapshot, i, imp) # {} =>
                 /\ imp \in DOMAIN built[1].imports
                 /\ \E j \in Denoted(snapshot, i, imp) :
                       built[1].imports[imp] = built[1].transformedFiles[snapshot[j].path]
\* the build of /App.jsx importing './B' next to a transformed /B.jsx
C23_RelativeImportOfRealFile ==
  /\ built # NoBuild
  /\ ~built[1].threw
  /\ \E i \in SourceFiles(snapshot) :
        /\ ~Fails(snapshot, i)
        /\ <<".", "/", "B">> \in LocalImports(snapshot, i)
        /\ Denoted(snapshot, i, <<".", "/", "B">>) # {}
        /\ <<".", "/", "B">> \in DOMAIN built[1].imports
        /\ IsPlaceholder(built[1], built[1].imports[<<".", "/", "B">>])


(***************************************************************************)
(* C24: for every successfully transformed source file at path p the final *)
(* resolution table maps p, p without its leading "/", the "@"-alias forms *)
(* of p, and each of these without the source extension, to the module     *)
(* location materialized for p, whatever other files the snapshot holds.   *)
(***************************************************************************)
FormsOf(path) ==
  UNION {{q, Substring(q, 1), <<At>> \o q} : q \in {path, WithoutExtension(path)}}
C24_AllFormsSameModule ==
  (built # NoBuild /\ ~built[1].threw) =>
     \A i \in SourceFiles(snapshot) :
        ~Fails(snapshot, i) =>
           \A form \in FormsOf(snapshot[i].path) :
              /\ form \in DOMAIN built[1].imports
              /\ built[1].imports[form] = built[1].transformedFiles[snapshot[i].path]
\* /B.jsx, then /App.jsx importing the package 'B': the form 'B' of /B.jsx is the package
C24_FormTakenByPackage ==
  /\ built # NoBuild
  /\ <<"/", "B", ".", "j", "s", "x">> \in DOMAIN built[1].transformedFiles
  /\ built[1].imports[<<"B">>] = CDN(<<"B">>)
\* /App.jsx, then /App.tsx: the forms without extension are those of the later file
C24_FormTakenByLaterFile ==
  /\ built # NoBuild
  /\ <<"/", "A", "p", "p", ".", "j", "s", "x">> \in DOMAIN built[1].transformedFiles
  /\ <<"/", "A", "p", "p", ".", "t", "s", "x">> \in DOMAIN built[1].transformedFiles
  /\ built[1].imports[<<"/", "A", "p", "p">>] # built[1].transformedFiles[<<"/", "A", "p", "p", ".", "j", "s", "x">>]


(***************************************************************************)
(* C25: in the result of every build each framework-runtime specifier      *)
(* (react, react-dom, react-dom/client, react/jsx-runtime,                 *)
(* react/jsx-dev-runtime) maps to its pinned external location, whatever   *)
(* files the snapshot contains and whatever they import.                   *)
(***************************************************************************)
C25_RuntimePinned ==
  (built # NoBuild /\ ~built[1].threw) =>
     \A specifier \in DOMAIN DEFAULT_IMPORTS :
        /\ specifier \in DOMAIN built[1].imports
        /\ built[1].imports[specifier] = DEFAULT_IMPORTS[specifier]
\* the build of a file that imports 'react': the entry is the unversioned package location
C25_ReactUnpinned ==
  /\ built # NoBuild
  /\ ~built[1].threw
  /\ built[1].errors = <<>>
  /\ built[1].imports[React] = CDN(React)
  /\ DEFAULT_IMPORTS[React] = CDN(React \o <<At>> \o REACT_VERSION)


(***************************************************************************)
(* C26: every specifier imported by a successfully transformed file that   *)
(* does not start with ".", "/" or "@/" is mapped in the final resolution  *)
(* table to the external CDN location of that package name, never to a     *)
(* local module or a placeholder, whatever files the snapshot contains and *)
(* in whatever order they are processed.                                   *)
(***************************************************************************)
PackageImports(snap, i) ==
  {imp \in {transformJSX(snap[i].content, snap[i].path, Paths(snap)).missingImports[k] :
               k \in 1..Len(transformJSX(snap[i].content, snap[i].path, Paths(snap)).missingImports)} :
     isPackage(imp)}
C26_PackageIsExternal ==
  (built # NoBuild /\ ~built[1].threw) =>
     \A i \in SourceFiles(snapshot) :
        ~Fails(snapshot, i) =>
           \A imp \in PackageImports(snapshot, i) :
              /\ imp \in DOMAIN built[1].imports
              /\ built[1].imports[imp] = CDN(imp)
\* /App.jsx importing the package 'B', then /B.jsx: 'B' is the module of /B.jsx
C26_PackageTakenByLaterFile ==
  /\ built # NoBuild
  /\ \E i \in SourceFiles(snapshot) : ~Fails(snapshot, i) /\ <<"B">> \in PackageImports(snapshot, i)
  /\ <<"/", "B", ".", "j", "s", "x">> \in DOMAIN built[1].transformedFiles
  /\ built[1].imports[<<"B">>] = built[1].transformedFiles[<<"/", "B", ".", "j", "s", "x">>]


(***************************************************************************)
(* C27: for any snapshot in which a successfully transformed source file   *)
(* imports a local specifier that matches no file, the build reports no    *)
(* error because of that import and the final resolution table has an      *)
(* entry for that specifier that points to a synthesized placeholder.      *)
(***************************************************************************)
MatchesNoFile(snap, i, imp) ==
  \A j \in 1..Len(snap) : ~Denotes(snap[i].path, imp, snap[j].path)
\* the local specifiers of transformed files that match no file
MissingLocalImports(snap) ==
  UNION {{imp \in LocalImports(snap, i) : MatchesNoFile(snap, i, imp)} :
           i \in {k \in SourceFiles(snap) : ~Fails(snap, k)}}
C27_PlaceholderResilience ==
  built # NoBuild =>
     \A imp \in MissingLocalImports(snapshot) :
        /\ ~built[1].threw
        /\ Len(built[1].errors) = Cardinality({i \in SourceFiles(snapshot) : Fails(snapshot, i)})
        /\ imp \in DOMAIN built[1].imports
        /\ IsPlaceholder(built[1], built[1].imports[imp])
\* the build of a file that imports './ona', which no file matches: build() threw
C27_PlaceholderRefused ==
  /\ built # NoBuild
  /\ <<".", "/", "o", "n", "a">> \in MissingLocalImports(snapshot)
  /\ built[1].threw
\* a missing local import whose placeholder createBlobURL accepts
C27_PlaceholderRegistered ==
  /\ built # NoBuild
  /\ ~built[1].threw
  /\ \E imp \in MissingLocalImports(snapshot) : IsPlaceholder(built[1], built[1].imports[imp])
\* the claim for the builds that do not throw
C27_UnlessRefused ==
  (built # NoBuild /\ ~built[1].threw) =>
     \A imp \in MissingLocalImports(snapshot) :
        /\ Len(built[1].errors) = Cardinality({i \in SourceFiles(snapshot) : Fails(snapshot, i)})
        /\ imp \in DOMAIN built[1].imports
        /\ IsPlaceholder(built[1], built[1].imports[imp])


(***************************************************************************)
(* C28: when a source file imports a relative specifier such as            *)
(* './missing' that matches no file, the build registers exactly one       *)
(* synthesized placeholder and registers it under the specifier's resolved *)
(* absolute form, the path obtained by resolving it against the importing  *)
(* file's directory.                                                       *)
(***************************************************************************)
PlaceholderBlobs(b) == {n \in 1..Len(b.blobs) : IsPlaceholder(b, BlobURL(n))}
RelativeMissing(snap, i) ==
  {imp \in LocalImports(snap, i) : StartsWith(imp, <<Dot>>) /\ MatchesNoFile(snap, i, imp)}
C28_UnderResolvedForm ==
  built # NoBuild =>
     \A i \in SourceFiles(snapshot) :
        ~Fails(snapshot, i) =>
           \A imp \in RelativeMissing(snapshot, i) :
              /\ ~built[1].threw
              /\ Cardinality(MissingLocalImports(snapshot)) = 1
                    => Cardinality(PlaceholderBlobs(built[1])) = 1
              /\ ResolvedFrom(snapshot[i].path, imp) \in DOMAIN built[1].imports
              /\ IsPlaceholder(built[1], built[1].imports[ResolvedFrom(snapshot[i].path, imp)])
\* the build of /App.jsx importing './B' with no file B: one placeholder, under './B' only
C28_RegisteredAsWritten ==
  /\ built # NoBuild
  /\ ~built[1].threw
  /\ \E i \in SourceFiles(snapshot) :
        /\ snapshot[i].path = <<"/", "A", "p", "p", ".", "j", "s", "x">>
        /\ ~Fails(snapshot, i)
        /\ <<".", "/", "B">> \in RelativeMissing(snapshot, i)
        /\ ResolvedFrom(snapshot[i].path, <<".", "/", "B">>) = <<"/", "B">>
  /\ Cardinality(PlaceholderBlobs(built[1])) = 1
  /\ IsPlaceholder(built[1], built[1].imports[<<".", "/", "B">>])
  /\ <<"/", "B">> \notin DOMAIN built[1].imports
\* what holds instead: a placeholder of its own for each such specifier, under the
\* specifier as written
C28_UnderSpecifierAsWritten ==
  (built # NoBuild /\ ~built[1].threw) =>
     \A i, j \in {k \in SourceFiles(snapshot) : ~Fails(snapshot, k)} :
        \A imp \in RelativeMissing(snapshot, i), other \in RelativeMissing(snapshot, j) :
           /\ imp \in DOMAIN built[1].imports
           /\ IsPlaceholder(built[1], built[1].imports[imp])
           /\ imp # other => built[1].imports[imp] # built[1].imports[other]


(***************************************************************************)
(* C29: findEntryPoint returns the previously active entry point if it is  *)
(* still in the snapshot; otherwise the first path of the fixed ordered    *)
(* candidate list that is in the snapshot; otherwise the first file of the *)
(* snapshot with a component-source extension (.jsx, .tsx); and it returns *)
(* a path absent from the snapshot only when there is no such file.        *)
(***************************************************************************)
Candidates(snap) ==
  {k \in 1..Len(ENTRY_POINT_CANDIDATES) : filesHasPath(snap, ENTRY_POINT_CANDIDATES[k])}
ComponentSources(snap) ==
  {i \in 1..Len(snap) : EndsWith(snap[i].path, <<".", "j", "s", "x">>) \/ EndsWith(snap[i].path, <<".", "t", "s", "x">>)}
Least(S) == CHOOSE n \in S : \A m \in S : n <= m
C29_EntryPointChoice ==
  /\ filesHasPath(snapshot, entryPoint) => findEntryPoint(snapshot, entryPoint) = entryPoint
  /\ (~filesHasPath(snapshot, entryPoint) /\ Candidates(snapshot) # {}) =>
        findEntryPoint(snapshot, entryPoint) = ENTRY_POINT_CANDIDATES[Least(Candidates(snapshot))]
  /\ (~filesHasPath(snapshot, entryPoint) /\ Candidates(snapshot) = {}
        /\ ComponentSources(snapshot) # {}) =>
        findEntryPoint(snapshot, entryPoint) = snapshot[Least(ComponentSources(snapshot))].path
  /\ ~filesHasPath(snapshot, findEntryPoint(snapshot, entryPoint)) =>
        /\ ComponentSources(snapshot) = {}
        /\ Candidates(snapshot) = {}
        /\ findEntryPoint(snapshot, entryPoint) = entryPoint
\* findEntryPoint has chosen /App.tsx from the candidate list although /C.tsx is the
\* first component source of the snapshot
C29_Witness ==
  /\ Len(snapshot) = 2
  /\ snapshot[1].path = <<"/", "C", ".", "t", "s", "x">>
  /\ snapshot[2].path = <<"/", "A", "p", "p", ".", "t", "s", "x">>
  /\ entryPoint = <<"/", "A", "p", "p", ".", "t", "s", "x">>
\* findEntryPoint has fallen back to the first component source, /C.tsx before /B.jsx
C29_FallbackReached ==
  /\ Len(snapshot) = 2
  /\ snapshot[1].path = <<"/", "C", ".", "t", "s", "x">>
  /\ snapshot[2].path = <<"/", "B", ".", "j", "s", "x">>
  /\ entryPoint = <<"/", "C", ".", "t", "s", "x">>


(***************************************************************************)
(* C30: for any sequence of VFS mutations, once the preview update has run *)
(* to quiescence the preview surface shows either the welcome/empty-state  *)
(* panel or a document generated from the current snapshot (error report   *)
(* or bootstrap); it never settles with the frame mounted and no document  *)
(* for the current snapshot.                                               *)
(***************************************************************************)
Quiescent == effectDeps = <<CurrentDeps>>
ShowsPanel == error # NoError
ShowsDocumentOf(snap) ==
  /\ error = NoError
  /\ previewHTML # NoDocument
  /\ ~createImportMap(snap).threw
  /\ previewHTML[1] = PreviewOf(createImportMap(snap), findEntryPoint(snap, entryPoint))
C30_ShowsSomething ==
  Quiescent => (ShowsPanel \/ ShowsDocumentOf(PreviewFiles(Cur)))

\* a document of an earlier snapshot stays in the mounted frame: /a/B.jsx was shown, then
\* renameFile('/a', '/a/b') moved the directory and threw before the refresh
C30_StaleDocument ==
  /\ Quiescent
  /\ error = NoError
  /\ previewHTML # NoDocument
  /\ BJsxInA \notin DOMAIN getAllFiles(Cur)
  /\ BJsxInA \in DOMAIN previewHTML[1].importMap.imports
\* the panel after the files are gone again
C30_BackToNoFiles ==
  /\ Quiescent
  /\ ~isFirstLoad
  /\ DOMAIN getAllFiles(Cur) = {}
  /\ error = NO_FILES
  /\ previewHTML = NoDocument


(***************************************************************************)
(* C31: rename(oldPath, newPath) terminates and returns a boolean for      *)
(* every pair of well-formed paths in every state, also when newPath is a  *)
(* descendant path of the directory oldPath.                               *)
(***************************************************************************)
C31_RenameReturns ==
  \A o \in ValidProbes, n \in ValidProbes, lim \in StackDepths :
     rename(Cur, o, n, lim).ret \in {"true", "false"}
\* a directory and a free path below it: the rename that exhausts the stack
C31_IntoOwnSubtree ==
  \E o \in ValidProbes, n \in ValidProbes :
     /\ KindAt(Cur, o) = "directory"
     /\ normalizePath(o) # RootPath
     /\ IsPrefix(normalizePath(o) \o <<Slash>>, normalizePath(n))
     /\ ~exists(Cur, n)
     /\ \A lim \in StackDepths : rename(Cur, o, n, lim).ret = "throw"


(***************************************************************************)
(* C32: every call that reports failure (createFile or createDirectory     *)
(* returning null, updateFile, deleteFile or rename returning false, an    *)
(* editor operation returning an "Error:" string) leaves the index, the    *)
(* tree and all file contents exactly as they were; a failing createFile   *)
(* or rename creates no ancestor directories.                              *)
(***************************************************************************)
C32_CoreFailureChangesNothing ==
  \A p \in ProbePaths \cup InvalidProbes, c \in Contents, lim \in StackDepths :
     /\ createFile(Cur, p, c).ret = "null" => createFile(Cur, p, c).st = Cur
     /\ createDirectory(Cur, p).ret = "null" => createDirectory(Cur, p).st = Cur
     /\ updateFile(Cur, p, c).ret = "false" => updateFile(Cur, p, c).st = Cur
     /\ deleteFile(Cur, p, lim).ret = "false" => deleteFile(Cur, p, lim).st = Cur
     /\ \A q \in ProbePaths :
           rename(Cur, p, q, lim).ret = "false" => rename(Cur, p, q, lim).st = Cur
C32_EditorFailureChangesNothing ==
  \A p \in ProbePaths \cup InvalidProbes, c \in Contents :
     /\ StartsWithError(createFileWithParents(Cur, p, c).ret)
           => createFileWithParents(Cur, p, c).st = Cur
     /\ \A o \in OldStrs :
           StartsWithError(replaceInFile(Cur, p, o, c).ret) => replaceInFile(Cur, p, o, c).st = Cur
     /\ \A l \in LineArgs :
           StartsWithError(insertInFile(Cur, p, l, c).ret) => insertInFile(Cur, p, l, c).st = Cur
C33_CreatedMeansCreated ==
  \A p \in ProbePaths \cup InvalidProbes, c \in Contents :
     /\ createFileWithParents(Cur, p, c).ret.msg = "File created" =>
           /\ readFile(createFileWithParents(Cur, p, c).st, p).kind = "content"
           /\ readFile(createFileWithParents(Cur, p, c).st, p).val = c
     /\ (validatePath(p) /\ FileOnTheWay(Cur, p)) =>
           StartsWithError(createFileWithParents(Cur, p, c).ret)
\* a file stands on the way to a free path and the call answers "File created"
C33_CreatedReportedForNothing ==
  \E p \in ValidProbes :
     /\ FileOnTheWay(Cur, p)
     /\ ~exists(Cur, p)
     /\ createFileWithParents(Cur, p, <<"x">>).ret.msg = "File created"
     /\ createFileWithParents(Cur, p, <<"x">>).st = Cur


(***************************************************************************)
(* C34: a step increments the change epoch only when it changed the        *)
(* VirtualFileSystem: a provider createFile on an existing path, an        *)
(* updateFile or deleteFile on a missing path and a tool call whose        *)
(* operation changed nothing leave refreshTrigger as it was.               *)
(***************************************************************************)
C34_EpochOnlyOnChange ==
  [][refreshTrigger' # refreshTrigger => vfsVars' # vfsVars]_vars

\* the provider's createFile on an existing path, its updateFile and its
\* deleteFile on a missing path and the create tool call below a file leave
\* the VirtualFileSystem as it is and count as a change
C34_CountedForNothing ==
  \E p \in ProvPaths, q \in ProvPaths, lim \in StackDepths :
     /\ exists(Cur, p) /\ ~exists(Cur, q)
     /\ LET c == provCreateFile(Cur, p, <<"x">>, selectedFile)
            u == provUpdateFile(Cur, q, <<"x">>, selectedFile)
            d == provDeleteFile(Cur, q, selectedFile, lim)
        IN /\ c.st = Cur /\ c.changed
           /\ u.st = Cur /\ u.changed
           /\ d.st = Cur /\ d.changed
     /\ LET t == [toolName |-> "str_replace_editor",
                  args |-> [command |-> "create", path |-> p \o <<"/", "b">>,
                            file_text |-> <<"x">>]]
            o == handleToolCall(Cur, t, selectedFile, lim)
        IN KindAt(Cur, p) = "file" /\ o.st = Cur /\ o.changed


(***************************************************************************)
(* C35: an operation of the provider or a tool call that changes the       *)
(* VirtualFileSystem while the selected file is null or the path of an     *)
(* existing node leaves it null or the path of an existing node; deleting  *)
(* or renaming a directory that holds the selected file is such a step.    *)
(***************************************************************************)
SelectionExists(st, sel) == sel = NoSelection \/ exists(st, sel)

C35_SelectionExists ==
  [][(SelectionExists(Cur, selectedFile) /\ vfsVars' # vfsVars)
        => SelectionExists(Cur', selectedFile')]_vars

\* the selected file lies in a directory, and deleting that directory with
\* the provider or with the file_manager tool leaves the selection on it
C35_DanglingAfterDelete ==
  \E d \in ProvPaths, lim \in StackDepths :
     /\ selectedFile # NoSelection /\ exists(Cur, selectedFile)
     /\ KindAt(Cur, d) = "directory"
     /\ IsPrefix(d \o <<"/">>, selectedFile)
     /\ LET o == provDeleteFile(Cur, d, selectedFile, lim)
            t == handleToolCall(Cur, [toolName |-> "file_manager",
                                      args |-> [command |-> "delete", path |-> d]],
                                selectedFile, lim)
        IN /\ o.sel = selectedFile /\ ~exists(o.st, selectedFile)
           /\ t.sel = selectedFile /\ ~exists(t.st, selectedFile)


(***************************************************************************)
(* C36: the build of a snapshot and the build of the same files iterated   *)
(* in the opposite order collect the same set of errors and have           *)
(* resolution tables with the same specifiers, each classified alike: the  *)
(* same real file, the same external location, or a placeholder.           *)
(***************************************************************************)
Reversed(snap) == [i \in 1..Len(snap) |-> snap[Len(snap) + 1 - i]]
ErrorSet(b) == {b.errors[k] : k \in 1..Len(b.errors)}
\* what a table entry stands for: the real file whose module it is, the
\* external location, or a placeholder
Classified(b, specifier) ==
  LET url == b.imports[specifier]
  IN IF url.kind # "blob" THEN [class |-> "external", of |-> <<url>>]
     ELSE IF IsPlaceholder(b, url) THEN [class |-> "placeholder", of |-> <<>>]
     ELSE [class |-> "file",
           of |-> SortedKeys({p \in DOMAIN b.transformedFiles : b.transformedFiles[p] = url})]
SameBuild(b, other) ==
  /\ other.threw = b.threw
  /\ ~b.threw =>
        /\ ErrorSet(other) = ErrorSet(b)
        /\ DOMAIN other.imports = DOMAIN b.imports
        /\ \A specifier \in DOMAIN b.imports :
              Classified(other, specifier) = Classified(b, specifier)

C36_OrderIndependent ==
  built # NoBuild =>
     \A other \in {createImportMap(Reversed(snapshot))} : SameBuild(built[1], other)

\* /B.jsx and /App.jsx importing the package 'B': in one order 'B' is the
\* external package, in the other the module of /B.jsx
C36_OrderDecides ==
  /\ built # NoBuild
  /\ ~built[1].threw
  /\ Len(snapshot) = 2
  /\ <<"B">> \in DOMAIN built[1].imports
  /\ \E other \in {createImportMap(Reversed(snapshot))} :
        /\ Classified(built[1], <<"B">>).class = "external"
        /\ Classified(other, <<"B">>).class = "file"


(***************************************************************************)
(* C37: of the requests of one client that the rate limiter answered with  *)
(* one reset time, that is in one window, at most config.limit have         *)
(* success = true, however the requests interleave and whichever of the    *)
(* database and the in-memory store served each.                            *)
(***************************************************************************)
Successes(resetTime) ==
  {r \in 1..MaxRequests : /\ requests[r].result # <<>>
                          /\ requests[r].result[1].success
                          /\ requests[r].result[1].resetTime = resetTime}
C37_AtMostLimit ==
  \A resetTime \in 0..(MaxClock + WindowMs) : Cardinality(Successes(resetTime)) <= Limit

\* a request the in-memory store serves after its reset time is granted with
\* the count back at 1
C37_RestartsAfterReset ==
  (fallbackRateLimitStore # NoRow /\ clock > fallbackRateLimitStore[1].resetTime) =>
     /\ fallbackLimit(fallbackRateLimitStore, clock).result.success
     /\ fallbackLimit(fallbackRateLimitStore, clock).store[1].count = 1

\* more than config.limit requests of one window were granted by the database alone
C37_OverLimitOnDatabase ==
  \E resetTime \in 0..(MaxClock + WindowMs) :
     /\ Cardinality(Successes(resetTime)) > Limit
     /\ \A r \in Successes(resetTime) : requests[r].result[1].path = "database"


(***************************************************************************)
(* C38: signIn answers an attempt with the rate-limit error only when at   *)
(* least 5 failed attempts for the email were recorded within the          *)
(* preceding 15 minutes; failures older than that never count.             *)
(***************************************************************************)
RecentFailures == {i \in 1..Len(recorded) : clock - recorded[i] < cutoff}
C38_BlockedOnlyOnRecentFailures ==
  isRateLimited(failedAttempts, clock) => Cardinality(RecentFailures) >= BlockedFrom

\* signIn has answered with the rate-limit error and would again, with
\* fewer than 5 failures in the preceding 15 minutes
C38_BlockedOnOldFailures ==
  /\ signInResult = RateLimited
  /\ isRateLimited(failedAttempts, clock)
  /\ Cardinality(RecentFailures) < BlockedFrom

\* the step of a successful password check leaves no failure count for the email
C38_SuccessResets ==
  [][(\E s \in 1..MaxSignIns : signIns[s] = "compare" /\ signIns'[s] = "createSession")
        => failedAttempts' = NoRow]_vars


(***************************************************************************)
(* C39: every event handed to logAuditEvent is in exactly one place: in    *)
(* the audit buffer, in the batch of a running flush that has yet to       *)
(* insert it, or in the audit log, where it is inserted once; and an event *)
(* of critical severity whose logAuditEvent call has returned is in the    *)
(* audit log.                                                               *)
(***************************************************************************)
InBuffer(e) == Cardinality({i \in DOMAIN auditBuffer : auditBuffer[i].id = e})
Inserted(e) == Cardinality({i \in DOMAIN auditLog : auditLog[i].id = e})
InFlight(e) ==
  Cardinality({f \in flushes : \E i \in f.next..Len(f.events) : f.events[i].id = e})
IsCritical(e) ==
  \/ \E i \in DOMAIN auditBuffer : auditBuffer[i].id = e /\ auditBuffer[i].severity = "critical"
  \/ \E i \in DOMAIN auditLog : auditLog[i].id = e /\ auditLog[i].severity = "critical"
C39_BufferedOrInsertedOnce ==
  \A e \in 1..logged :
     /\ Inserted(e) <= 1
     /\ InBuffer(e) + InFlight(e) + Inserted(e) = 1
     /\ (IsCritical(e) /\ e \in returned) => Inserted(e) = 1

\* an event is inserted twice
C39_InsertedTwice == \E e \in 1..logged : Inserted(e) = 2

\* the logAuditEvent call of a critical event has returned and the event is
\* in the buffer, not in the audit log
C39_CriticalNotFlushed ==
  \E e \in 1..logged : IsCritical(e) /\ e \in returned /\ Inserted(e) = 0 /\ InBuffer(e) = 1

(***************************************************************************)
(* C40: the body of initializeApplication runs at most once, however many  *)
(* calls are made and however they overlap.                                 *)
(***************************************************************************)
C40_BodyRunsOnce == bodyRuns <= 1

\* two calls have both run the body, the second while the first awaited the
\* startup log
C40_BodyRanTwice ==
  /\ bodyRuns = 2
  /\ \A c \in 1..MaxCalls : callers[c] \in {"logSystemStartup", "returned"}

====
